---- MODULE Spec2Model ----
(***************************************************************************)
(* The INI parser and the structure-preserving editor of                   *)
(* stcdetail/ini.go.  Strings and byte slices are sequences of byte        *)
(* values; Go's 0-based offsets are kept, so input[i] is inp[i + 1].       *)
(***************************************************************************)
EXTENDS Integers, Sequences, FiniteSets, TLC

(***************************************************************************)
(* Program constants and the bytes the code names.                         *)
(***************************************************************************)
tabwidth == 8
eofRune == -1
NUL == 0
BS == 8
TAB == 9
LF == 10
CR == 13
SP == 32
DQ == 34
HASH == 35
MINUS == 45
SEMI == 59
EQ == 61
LBRACK == 91
BSL == 92
RBRACK == 93
DEL == 127
\* the letters of the escapes \b, \n, \t
Lower_b == 98
Lower_n == 110
Lower_t == 116

\* Bytes used to write the inputs of the model (not named by the code).
Ch == [a |-> 97, b |-> 98, c |-> 99, s |-> 115, t |-> 116, x |-> 120,
       one |-> 49, two |-> 50]

(***************************************************************************)
(* Maps (Go map[string]...): functions whose domain is the set of keys     *)
(* present.                                                                *)
(***************************************************************************)
EmptyMap == [k \in {} |-> 0]
HasKey(m, k) == k \in DOMAIN m
MapPut(m, k, v) == [x \in (DOMAIN m) \cup {k} |-> IF x = k THEN v ELSE m[x]]
MapDel(m, k) == [x \in (DOMAIN m) \ {k} |-> m[x]]

(***************************************************************************)
(* Sections.  NilSec is the nil *IniSection.                               *)
(***************************************************************************)
NilSec == [isnil |-> TRUE, Section |-> <<>>, hasSub |-> FALSE, Subsection |-> <<>>]
MkSec(name) == [isnil |-> FALSE, Section |-> name, hasSub |-> FALSE, Subsection |-> <<>>]
MkSubSec(name, sub) == [isnil |-> FALSE, Section |-> name, hasSub |-> TRUE, Subsection |-> sub]

isAlpha(c) ==
    LET d == IF (c \div 32) % 2 = 1 THEN c - 32 ELSE c
    IN d >= 65 /\ d <= 90

isKeyChar(c) == isAlpha(c) \/ (c >= 48 /\ c <= 57) \/ c = MINUS

ValidIniSection(s) == Len(s) > 0 /\ \A i \in 1..Len(s) : isKeyChar(s[i])

ValidIniSubsection(s) == \A i \in 1..Len(s) : s[i] # LF /\ s[i] # NUL

SectionValid(s) ==
    IF s.isnil THEN TRUE
    ELSE IF ~ValidIniSection(s.Section) THEN FALSE
    ELSE (~s.hasSub) \/ ValidIniSubsection(s.Subsection)

ValidIniKey(s) ==
    /\ s # <<>>
    /\ isAlpha(s[1])
    /\ \A i \in 1..Len(s) : isKeyChar(s[i])

RECURSIVE escapeSubsection(_)
escapeSubsection(s) ==
    IF s = <<>> THEN <<>>
    ELSE (IF Head(s) = BSL \/ Head(s) = DQ THEN <<BSL, Head(s)>> ELSE <<Head(s)>>)
         \o escapeSubsection(Tail(s))

\* IniSection.String; called only on valid sections (it panics otherwise)
SectionString(s) ==
    IF s.isnil THEN <<>>
    ELSE IF s.hasSub
         THEN <<LBRACK>> \o s.Section \o <<SP, DQ>> \o escapeSubsection(s.Subsection)
              \o <<DQ, RBRACK>>
    ELSE <<LBRACK>> \o s.Section \o <<RBRACK>>

Dot == <<46>>

\* IniQKey; called only with a valid section and key (it panics otherwise)
IniQKey(s, key) ==
    IF s.isnil THEN key
    ELSE IF ~s.hasSub THEN s.Section \o Dot \o key
    ELSE s.Section \o Dot \o s.Subsection \o Dot \o key

(***************************************************************************)
(* The cursor.  A parser state l is the record                             *)
(*   [index, lineno, colno, sec, prevEnd]   (struct iniParse).             *)
(***************************************************************************)
\* a local variable: v is computed once and named in the rest, Op
With(v, Op(_)) == Op(v)

remaining(inp, l) == Len(inp) - l.index

peek(inp, l) == IF l.index >= Len(inp) THEN eofRune ELSE inp[l.index + 1]

\* at(n) reads input[index+n] when index+n = len(input): a run-time panic
atPanics(inp, l, n) == n + l.index = Len(inp)

at(inp, l, n) ==
    LET m == n + l.index
    IN IF m > Len(inp) \/ m < 0 THEN eofRune ELSE inp[m + 1]

\* skip that adds the tab width at a tab instead of going to the next stop
RECURSIVE skipPos_TabAddsWidth(_, _, _)
skipPos_TabAddsWidth(inp, l, stop) ==
    IF l.index >= stop THEN l
    ELSE IF inp[l.index + 1] = LF
         THEN skipPos_TabAddsWidth(inp, [l EXCEPT !.index = @ + 1, !.lineno = @ + 1,
                                                  !.colno = 0], stop)
    ELSE IF inp[l.index + 1] = TAB
         THEN skipPos_TabAddsWidth(inp, [l EXCEPT !.index = @ + 1,
                                                  !.colno = @ + tabwidth], stop)
    ELSE skipPos_TabAddsWidth(inp, [l EXCEPT !.index = @ + 1, !.colno = @ + 1], stop)

\* the for loop of skip, up to index stop
RECURSIVE skipPos(_, _, _)
skipPos(inp, l, stop) ==
    IF l.index >= stop THEN l
    ELSE IF inp[l.index + 1] = LF
         THEN skipPos(inp, [l EXCEPT !.index = @ + 1, !.lineno = @ + 1, !.colno = 0], stop)
    ELSE IF inp[l.index + 1] = TAB
         THEN skipPos(inp, [l EXCEPT !.index = @ + 1,
                                     !.colno = @ + 8 - (@ % tabwidth)], stop)
    ELSE skipPos(inp, [l EXCEPT !.index = @ + 1, !.colno = @ + 1], stop)

skip(inp, l, n) ==
    skipPos(inp, l,
            l.index + (IF n < 0 \/ n > remaining(inp, l) THEN remaining(inp, l) ELSE n))

match(inp, l, text) ==
    IF remaining(inp, l) >= Len(text)
       /\ SubSeq(inp, l.index + 1, l.index + Len(text)) = text
    THEN [ok |-> TRUE, l |-> skip(inp, l, Len(text))]
    ELSE [ok |-> FALSE, l |-> l]

isWS(r) == r = SP \/ r = TAB \/ r = CR

\* the predicates handed to skipWhile/takeWhile
inClass(cls, r) == IF cls = "ws" THEN isWS(r) ELSE isKeyChar(r)

RECURSIVE spanEnd(_, _, _)
spanEnd(inp, i, cls) ==
    IF i < Len(inp) /\ inClass(cls, inp[i + 1]) THEN spanEnd(inp, i + 1, cls) ELSE i

skipWhile(inp, l, cls) ==
    LET i == spanEnd(inp, l.index, cls)
    IN IF i > l.index THEN [ok |-> TRUE, l |-> skip(inp, l, i - l.index)]
       ELSE [ok |-> FALSE, l |-> l]

\* bytes.IndexByte(input[from:], c), as an offset into input; -1 when absent
RECURSIVE IndexByte(_, _, _)
IndexByte(inp, from, c) ==
    IF from >= Len(inp) THEN 0 - 1
    ELSE IF inp[from + 1] = c THEN from
    ELSE IndexByte(inp, from + 1, c)

skipTo(inp, l, c) ==
    LET i == IndexByte(inp, l.index, c)
    IN IF i >= 0 THEN [ok |-> TRUE, l |-> skip(inp, l, i - l.index)]
       ELSE [ok |-> FALSE, l |-> skip(inp, l, remaining(inp, l))]

skipWS(inp, l) == skipWhile(inp, l, "ws")

\* getKey: [key, l]
getKey(inp, l) ==
    LET r == skipWhile(inp, l, "key")
    IN [key |-> SubSeq(inp, l.index + 1, r.l.index), l |-> r.l]

(***************************************************************************)
(* The grammar.  Results carry st: "ok", "none"/"nil", "throw" (a          *)
(* ParseError raised at position l, with msg) or "panic" (a run-time       *)
(* panic that is no ParseError).                                           *)
(***************************************************************************)
\* the for loop of getSubsection: where it stopped, the text, or isnil
\* the loop of getSubsection, keeping whatever byte follows a backslash
RECURSIVE subsectionLoop_KeepsEscaped(_, _, _)
subsectionLoop_KeepsEscaped(inp, i, ret) ==
    IF ~(i + 1 < Len(inp)) THEN [i |-> i, ret |-> ret, isnil |-> FALSE]
    ELSE LET c == inp[i + 1]
         IN IF c = DQ THEN [i |-> i, ret |-> ret, isnil |-> FALSE]
            ELSE IF c = NUL \/ c = LF THEN [i |-> i, ret |-> ret, isnil |-> TRUE]
            ELSE IF c = BSL
                 THEN subsectionLoop_KeepsEscaped(inp, i + 2, Append(ret, inp[i + 2]))
            ELSE subsectionLoop_KeepsEscaped(inp, i + 1, Append(ret, c))

RECURSIVE subsectionLoop(_, _, _)
subsectionLoop(inp, i, ret) ==
    IF ~(i + 1 < Len(inp)) THEN [i |-> i, ret |-> ret, isnil |-> FALSE]
    ELSE LET c == inp[i + 1]
         IN IF c = DQ THEN [i |-> i, ret |-> ret, isnil |-> FALSE]
            ELSE IF c = NUL \/ c = LF THEN [i |-> i, ret |-> ret, isnil |-> TRUE]
            ELSE IF c = BSL
                 THEN LET nc == inp[i + 2]
                      IN subsectionLoop(inp, i + 2,
                            IF nc = BSL \/ nc = DQ THEN Append(ret, nc) ELSE ret)
            ELSE subsectionLoop(inp, i + 1, Append(ret, c))

getSubsection(inp, l) ==
    IF remaining(inp, l) < 2 \/ peek(inp, l) # DQ
    THEN [st |-> "nil", sub |-> <<>>, l |-> l]
    ELSE LET r == subsectionLoop(inp, l.index + 1, <<>>)
         IN IF r.isnil THEN [st |-> "nil", sub |-> <<>>, l |-> l]
            ELSE IF r.i >= Len(inp) THEN [st |-> "panic", sub |-> <<>>, l |-> l]
            ELSE IF inp[r.i + 1] # DQ THEN [st |-> "nil", sub |-> <<>>, l |-> l]
            ELSE [st |-> "ok", sub |-> r.ret, l |-> skip(inp, l, r.i + 1 - l.index)]

getSection(inp, l) ==
    With(match(inp, l, <<LBRACK>>), LAMBDA m :
    IF ~m.ok THEN [st |-> "none", sec |-> NilSec, l |-> l, msg |-> ""]
    ELSE
    With(getKey(inp, m.l), LAMBDA k :
    IF Len(k.key) = 0
    THEN [st |-> "throw", sec |-> NilSec, l |-> k.l,
          msg |-> "expected section name after '['"]
    ELSE
    With(match(inp, k.l, <<RBRACK>>), LAMBDA close :
    IF close.ok
    THEN [st |-> "ok", sec |-> MkSec(k.key), l |-> close.l, msg |-> ""]
    ELSE
    With(skipWS(inp, k.l), LAMBDA ws :
    IF ~ws.ok
    THEN [st |-> "throw", sec |-> NilSec, l |-> ws.l,
          msg |-> "expected ']' or space followed by quoted subsection"]
    ELSE
    With(getSubsection(inp, ws.l), LAMBDA sub :
    IF sub.st = "panic"
    THEN [st |-> "panic", sec |-> NilSec, l |-> sub.l, msg |-> ""]
    ELSE IF sub.st = "nil"
    THEN [st |-> "throw", sec |-> NilSec, l |-> sub.l,
          msg |-> "expected quoted subsection after space"]
    ELSE
    With(match(inp, sub.l, <<RBRACK>>), LAMBDA close2 :
    IF ~close2.ok
    THEN [st |-> "throw", sec |-> NilSec, l |-> close2.l, msg |-> "expected ']'"]
    ELSE [st |-> "ok", sec |-> MkSubSec(k.key, sub.sub), l |-> close2.l,
          msg |-> ""]))))))

\* needQuotes that forgets the leading blank
needQuotes_NoLeadingBlank(val) ==
    \E i \in 1..Len(val) :
        val[i] < SP \/ val[i] >= DEL \/ val[i] \in {DQ, HASH, SEMI, BSL}

needQuotes(val) ==
    IF val = <<>> THEN FALSE
    ELSE IF val[1] = SP \/ val[1] = TAB THEN TRUE
    ELSE \E i \in 1..Len(val) :
            val[i] < SP \/ val[i] >= DEL \/ val[i] \in {DQ, HASH, SEMI, BSL}

RECURSIVE escapeBytes(_)
escapeBytes(val) ==
    IF val = <<>> THEN <<>>
    ELSE LET b == Head(val)
         IN (IF b = DQ \/ b = BSL THEN <<BSL, b>>
             ELSE IF b = BS THEN <<BSL, Lower_b>>
             ELSE IF b = LF THEN <<BSL, Lower_n>>
             ELSE IF b = TAB THEN <<BSL, Lower_t>>
             ELSE <<b>>) \o escapeBytes(Tail(val))

EscapeIniValue(val) ==
    IF ~needQuotes(val) THEN val
    ELSE <<DQ>> \o escapeBytes(val) \o <<DQ>>

\* the for loop of getValue
RECURSIVE valueLoop(_, _, _, _, _)
valueLoop(inp, l, ret, escape, inquote) ==
    LET c == peek(inp, l)
        next == skip(inp, l, 1)
    IN
    IF escape THEN
        IF c = DQ \/ c = BSL THEN valueLoop(inp, next, Append(ret, c), FALSE, inquote)
        ELSE IF c = Lower_n THEN valueLoop(inp, next, Append(ret, LF), FALSE, inquote)
        ELSE IF c = Lower_t THEN valueLoop(inp, next, Append(ret, TAB), FALSE, inquote)
        ELSE IF c = Lower_b THEN valueLoop(inp, next, Append(ret, BS), FALSE, inquote)
        ELSE IF c = LF THEN valueLoop(inp, next, ret, FALSE, inquote)
        ELSE IF c = CR /\ atPanics(inp, l, 1)
             THEN [st |-> "panic", val |-> ret, l |-> l, msg |-> ""]
        ELSE IF c = CR /\ at(inp, l, 1) = LF
             THEN valueLoop(inp, skip(inp, next, 1), ret, FALSE, inquote)
        ELSE IF c = eofRune
             THEN [st |-> "throw", val |-> ret, l |-> l,
                   msg |-> "incomplete escape sequence at EOF"]
        ELSE [st |-> "throw", val |-> ret, l |-> l, msg |-> "invalid escape sequence"]
    ELSE IF c = BSL THEN valueLoop(inp, next, ret, TRUE, inquote)
    ELSE IF c = DQ THEN valueLoop(inp, next, ret, FALSE, ~inquote)
    ELSE IF c = CR /\ atPanics(inp, l, 1)
         THEN [st |-> "panic", val |-> ret, l |-> l, msg |-> ""]
    ELSE IF c = LF \/ c = eofRune \/ (c = CR /\ at(inp, l, 1) = LF) THEN
        LET l1 == IF c = CR THEN next ELSE l
        IN IF inquote
           THEN [st |-> "throw", val |-> ret, l |-> l1, msg |-> "missing close quotes"]
           ELSE [st |-> "ok", val |-> ret, l |-> skip(inp, l1, 1), msg |-> ""]
    ELSE IF ~inquote /\ (c = HASH \/ c = SEMI)
         THEN valueLoop(inp, skip(inp, skipTo(inp, l, LF).l, 1), ret, FALSE, inquote)
    ELSE valueLoop(inp, next, Append(ret, c), FALSE, inquote)

getValue(inp, l) == valueLoop(inp, l, <<>>, FALSE, FALSE)

\* getRange that forgets l.prevEnd = l.index
getRange_KeepsPrevEnd(inp, l, startIdx) ==
    [range |-> [StartIndex |-> startIdx, EndIndex |-> l.index, PrevEndIndex |-> l.prevEnd],
     l |-> l]

\* getRange: [range, l]
getRange(inp, l, startIdx) ==
    [range |-> [StartIndex |-> startIdx, EndIndex |-> l.index, PrevEndIndex |-> l.prevEnd],
     l |-> [l EXCEPT !.prevEnd = l.index]]

NoRange == [StartIndex |-> 0, EndIndex |-> 0, PrevEndIndex |-> 0]
NoEvent == [kind |-> "none", sec |-> NilSec, Key |-> <<>>, hasValue |-> FALSE,
            Value |-> <<>>, range |-> NoRange]
\* Index is pos.index of the position thrown at (ParseError keeps only the
\* line and the column)
NoError == [has |-> FALSE, Lineno |-> 0, Colno |-> 0, Msg |-> "", Index |-> 0]

\* throwAt(pos, msg) and its recovery in do1's deferred function
\* throwAt whose recovery leaves the cursor where the statement stopped
throwAt_NoRecovery(inp, l, pos, msg, ev) ==
    [l |-> l, ev |-> ev, panicked |-> FALSE,
     err |-> [has |-> TRUE, Lineno |-> pos.lineno + 1, Colno |-> pos.colno + 1, Msg |-> msg,
             Index |-> pos.index]]

throwAt(inp, l, pos, msg, ev) ==
    [l |-> skipTo(inp, l, LF).l, ev |-> ev, panicked |-> FALSE,
     err |-> [has |-> TRUE, Lineno |-> pos.lineno + 1, Colno |-> pos.colno + 1, Msg |-> msg,
             Index |-> pos.index]]

\* the call of l.Value (the sink's Item) at the end of an item statement;
\* cb is what the callback returns: "ok", "BadKey" or "error"
\* deliverItem that always hands over a value, an empty one for a bare key
deliverItem_EmptyValue(inp, l, startindex, keypos, valpos, k, hasValue, v, cb) ==
    LET gr == getRange(inp, l, startindex)
        ev == [kind |-> "item", sec |-> l.sec, Key |-> k, hasValue |-> TRUE,
               Value |-> v, range |-> gr.range]
    IN IF cb = "BadKey" THEN throwAt(inp, gr.l, keypos, "BadKey", ev)
       ELSE IF cb # "ok" THEN throwAt(inp, gr.l, valpos, "error", ev)
       ELSE [l |-> gr.l, ev |-> ev, panicked |-> FALSE, err |-> NoError]

\* deliverItem that reports a BadKey at the value and the rest at the key
deliverItem_SwapsPositions(inp, l, startindex, keypos, valpos, k, hasValue, v, cb) ==
    LET gr == getRange(inp, l, startindex)
        ev == [kind |-> "item", sec |-> l.sec, Key |-> k, hasValue |-> hasValue,
               Value |-> v, range |-> gr.range]
    IN IF cb = "BadKey" THEN throwAt(inp, gr.l, valpos, "BadKey", ev)
       ELSE IF cb # "ok" THEN throwAt(inp, gr.l, keypos, "error", ev)
       ELSE [l |-> gr.l, ev |-> ev, panicked |-> FALSE, err |-> NoError]

\* an item delivered without the parser's current section
deliverItem_NoSection(inp, l, startindex, keypos, valpos, k, hasValue, v, cb) ==
    LET gr == getRange(inp, l, startindex)
        ev == [kind |-> "item", sec |-> NilSec, Key |-> k, hasValue |-> hasValue,
               Value |-> v, range |-> gr.range]
    IN IF cb = "BadKey" THEN throwAt(inp, gr.l, keypos, "BadKey", ev)
       ELSE IF cb # "ok" THEN throwAt(inp, gr.l, valpos, "error", ev)
       ELSE [l |-> gr.l, ev |-> ev, panicked |-> FALSE, err |-> NoError]

deliverItem(inp, l, startindex, keypos, valpos, k, hasValue, v, cb) ==
    LET gr == getRange(inp, l, startindex)
        ev == [kind |-> "item", sec |-> l.sec, Key |-> k, hasValue |-> hasValue,
               Value |-> v, range |-> gr.range]
    IN IF cb = "BadKey" THEN throwAt(inp, gr.l, keypos, "BadKey", ev)
       ELSE IF cb # "ok" THEN throwAt(inp, gr.l, valpos, "error", ev)
       ELSE [l |-> gr.l, ev |-> ev, panicked |-> FALSE, err |-> NoError]

\* do1: one statement.  [l, ev, err, panicked]: the parser afterwards, the
\* callback made (if any), the ParseError recorded (if any)
do1(inp, l0, cb) ==
    With(skipWS(inp, l0).l, LAMBDA keypos :
    With(getSection(inp, keypos), LAMBDA gs :
    IF gs.st = "panic"
    THEN [l |-> gs.l, ev |-> NoEvent, panicked |-> TRUE, err |-> NoError]
    ELSE IF gs.st = "throw" THEN throwAt(inp, gs.l, gs.l, gs.msg, NoEvent)
    ELSE IF gs.st = "ok" THEN
        With(getRange(inp, [match(inp, skipWS(inp, gs.l).l, <<LF>>).l
                              EXCEPT !.sec = gs.sec], l0.index), LAMBDA gr :
        LET ev == [kind |-> "section", sec |-> gs.sec, Key |-> <<>>, hasValue |-> FALSE,
                   Value |-> <<>>, range |-> gr.range]
        IN IF cb # "ok" THEN throwAt(inp, gr.l, keypos, "error", ev)
           ELSE [l |-> gr.l, ev |-> ev, panicked |-> FALSE, err |-> NoError])
    ELSE IF isAlpha(peek(inp, keypos)) THEN
        With(getKey(inp, keypos), LAMBDA k :
        With(skipWS(inp, k.l).l, LAMBDA l2 :
        With(match(inp, l2, <<EQ>>), LAMBDA m :
        IF ~m.ok THEN
            IF peek(inp, l2) \notin {LF, HASH, SEMI, eofRune}
            THEN throwAt(inp, l2, l2, "Expected '=' after key", NoEvent)
            ELSE With(skipTo(inp, l2, LF), LAMBDA st :
                 deliverItem(inp, IF st.ok THEN skip(inp, st.l, 1) ELSE st.l,
                             l0.index, keypos, l2, k.key, FALSE, <<>>, cb))
        ELSE
            With(skipWS(inp, m.l).l, LAMBDA valpos :
            With(getValue(inp, valpos), LAMBDA gv :
            IF gv.st = "panic"
            THEN [l |-> gv.l, ev |-> NoEvent, panicked |-> TRUE, err |-> NoError]
            ELSE IF gv.st = "throw" THEN throwAt(inp, gv.l, gv.l, gv.msg, NoEvent)
            ELSE deliverItem(inp, gv.l, l0.index, keypos, valpos, k.key, TRUE,
                             gv.val, cb))))))
    ELSE IF peek(inp, keypos) \in {HASH, SEMI, LF}
         THEN [l |-> skip(inp, skipTo(inp, keypos, LF).l, 1), ev |-> NoEvent,
               panicked |-> FALSE, err |-> NoError]
    ELSE throwAt(inp, keypos, keypos, "Expected section or key", NoEvent)))

\* newParser: the parser before the first statement
newParser == [index |-> 0, lineno |-> 0, colno |-> 0, sec |-> NilSec, prevEnd |-> 0]


(***************************************************************************)
(* container/list.  An element is a handle 1, 2, ...; 0 is the nil         *)
(* *list.Element.  An editor ie is the record                              *)
(*   [fragments, Value, secEnd, values, lastSec, nalloc]:                  *)
(* fragments is the list (handles in list order), Value[e] is e.Value,     *)
(* nalloc counts the elements allocated so far.                            *)
(***************************************************************************)
Live(ie, e) == \E i \in 1..Len(ie.fragments) : ie.fragments[i] = e

IndexOf(seq, e) == CHOOSE i \in 1..Len(seq) : seq[i] = e

Back(ie) == IF ie.fragments = <<>> THEN 0 ELSE ie.fragments[Len(ie.fragments)]

\* PushBack, InsertAfter, InsertBefore: [ie, e], e the new element
PushBack(ie, v) ==
    [ie |-> [ie EXCEPT !.fragments = Append(@, ie.nalloc + 1),
                       !.Value = MapPut(@, ie.nalloc + 1, v),
                       !.nalloc = @ + 1],
     e |-> ie.nalloc + 1]

\* the list ignores a mark that is not (or no longer) one of its elements
InsertAfter(ie, v, mark) ==
    IF ~Live(ie, mark) THEN [ie |-> ie, e |-> 0]
    ELSE LET i == IndexOf(ie.fragments, mark)
         IN [ie |-> [ie EXCEPT !.fragments = SubSeq(@, 1, i) \o <<ie.nalloc + 1>>
                                             \o SubSeq(@, i + 1, Len(@)),
                               !.Value = MapPut(@, ie.nalloc + 1, v),
                               !.nalloc = @ + 1],
             e |-> ie.nalloc + 1]

InsertBefore(ie, v, mark) ==
    IF ~Live(ie, mark) THEN [ie |-> ie, e |-> 0]
    ELSE LET i == IndexOf(ie.fragments, mark)
         IN [ie |-> [ie EXCEPT !.fragments = SubSeq(@, 1, i - 1) \o <<ie.nalloc + 1>>
                                             \o SubSeq(@, i, Len(@)),
                               !.Value = MapPut(@, ie.nalloc + 1, v),
                               !.nalloc = @ + 1],
             e |-> ie.nalloc + 1]

Remove(ie, e) ==
    IF ~Live(ie, e) THEN ie
    ELSE LET i == IndexOf(ie.fragments, e)
         IN [ie EXCEPT !.fragments = SubSeq(@, 1, i - 1) \o SubSeq(@, i + 1, Len(@)),
                       !.Value = MapDel(@, e)]

(***************************************************************************)
(* IniEditor                                                               *)
(***************************************************************************)
NewEditor == [fragments |-> <<>>, Value |-> EmptyMap, secEnd |-> EmptyMap,
              values |-> EmptyMap, lastSec |-> NilSec, nalloc |-> 0]

\* ie.values[k] read (the zero value, an empty slice, when k is absent)
valuesOf(ie, k) == IF HasKey(ie.values, k) THEN ie.values[k] ELSE <<>>

RECURSIVE writeAll(_, _)
writeAll(ie, frags) ==
    IF frags = <<>> THEN <<>>
    ELSE ie.Value[Head(frags)] \o writeAll(ie, Tail(frags))

\* WriteTo / String
WriteTo(ie) == writeAll(ie, ie.fragments)

RECURSIVE removeAll(_, _)
removeAll(ie, vs) ==
    IF vs = <<>> THEN ie ELSE removeAll(Remove(ie, Head(vs)), Tail(vs))

\* Del that removes the fragments and forgets delete(ie.values, k)
IEDel_KeepsIndex(ie, is, key) ==
    removeAll(ie, valuesOf(ie, IniQKey(is, key)))

\* Del that truncates the entry to an empty slice instead of deleting it
IEDel_EmptyEntry(ie, is, key) ==
    LET k == IniQKey(is, key)
    IN [removeAll(ie, valuesOf(ie, k)) EXCEPT !.values = MapPut(@, k, <<>>)]

\* Del that removes only the last line of the key
IEDel_OnlyLast(ie, is, key) ==
    LET k == IniQKey(is, key)
        vs == valuesOf(ie, k)
    IN [(IF vs = <<>> THEN ie ELSE Remove(ie, vs[Len(vs)])) EXCEPT !.values = MapDel(@, k)]

IEDel(ie, is, key) ==
    LET k == IniQKey(is, key)
    IN [removeAll(ie, valuesOf(ie, k)) EXCEPT !.values = MapDel(@, k)]

iniLine(key, value) ==
    <<TAB>> \o key \o <<SP, EQ, SP>> \o EscapeIniValue(value) \o <<LF>>

\* newItem that does not look the section up and always makes a header
newItem_AlwaysHeader(ie, is, key, value) ==
    LET ss == SectionString(is)
        ssb == ss \o <<LF>>
        back == Back(ie)
        hdr == IF back # 0 /\ Len(ie.Value[back]) = 0
               THEN [ie |-> [ie EXCEPT !.Value[back] = ssb], e |-> back]
               ELSE PushBack(ie, ssb)
        mark == InsertAfter(hdr.ie, <<>>, hdr.e)
        ie1 == [mark.ie EXCEPT !.secEnd = MapPut(@, ss, mark.e)]
        ins == InsertBefore(ie1, iniLine(key, value), mark.e)
        k == IniQKey(is, key)
    IN [ins.ie EXCEPT !.values = MapPut(@, k, Append(valuesOf(ins.ie, k), ins.e))]

\* newItem that never reuses an empty last fragment for the header
newItem_NeverInPlace(ie, is, key, value) ==
    LET ss == SectionString(is)
        ok == HasKey(ie.secEnd, ss)
        hdr == PushBack(ie, ss \o <<LF>>)
        mark == InsertAfter(hdr.ie, <<>>, hdr.e)
        ie1 == IF ok THEN ie ELSE [mark.ie EXCEPT !.secEnd = MapPut(@, ss, mark.e)]
        e == IF ok THEN ie.secEnd[ss] ELSE mark.e
        ins == InsertBefore(ie1, iniLine(key, value), e)
        k == IniQKey(is, key)
    IN [ins.ie EXCEPT !.values = MapPut(@, k, Append(valuesOf(ins.ie, k), ins.e))]

newItem(ie, is, key, value) ==
    LET ss == SectionString(is)
        ok == HasKey(ie.secEnd, ss)
        ssb == ss \o <<LF>>
        back == Back(ie)
        hdr == IF back # 0 /\ Len(ie.Value[back]) = 0
               THEN [ie |-> [ie EXCEPT !.Value[back] = ssb], e |-> back]
               ELSE PushBack(ie, ssb)
        mark == InsertAfter(hdr.ie, <<>>, hdr.e)
        ie1 == IF ok THEN ie ELSE [mark.ie EXCEPT !.secEnd = MapPut(@, ss, mark.e)]
        e == IF ok THEN ie.secEnd[ss] ELSE mark.e
        ins == InsertBefore(ie1, iniLine(key, value), e)
        k == IniQKey(is, key)
    IN [ins.ie EXCEPT !.values = MapPut(@, k, Append(valuesOf(ins.ie, k), ins.e))]

\* Set that inserts the new line after the first old line, not the last
IESet_AfterFirst(ie, is, key, value) ==
    LET k == IniQKey(is, key)
        vs == valuesOf(ie, k)
    IN IF Len(vs) > 0
       THEN LET ins == InsertAfter(ie, iniLine(key, value), vs[1])
            IN removeAll([ins.ie EXCEPT !.values = MapPut(@, k, <<ins.e>>)], vs)
       ELSE newItem(ie, is, key, value)

\* Set whose removal loop stops one short and leaves the last old line
IESet_KeepsLast(ie, is, key, value) ==
    LET k == IniQKey(is, key)
        vs == valuesOf(ie, k)
    IN IF Len(vs) > 0
       THEN LET ins == InsertAfter(ie, iniLine(key, value), vs[Len(vs)])
            IN removeAll([ins.ie EXCEPT !.values = MapPut(@, k, <<ins.e>>)],
                         SubSeq(vs, 1, Len(vs) - 1))
       ELSE newItem(ie, is, key, value)

IESet(ie, is, key, value) ==
    LET k == IniQKey(is, key)
        vs == valuesOf(ie, k)
    IN IF Len(vs) > 0
       THEN LET ins == InsertAfter(ie, iniLine(key, value), vs[Len(vs)])
            IN removeAll([ins.ie EXCEPT !.values = MapPut(@, k, <<ins.e>>)], vs)
       ELSE newItem(ie, is, key, value)

\* Add that inserts the new line before the last old line
IEAdd_BeforeLast(ie, is, key, value) ==
    LET k == IniQKey(is, key)
        vs == valuesOf(ie, k)
    IN IF Len(vs) > 0
       THEN LET ins == InsertBefore(ie, iniLine(key, value), vs[Len(vs)])
            IN [ins.ie EXCEPT !.values = MapPut(@, k, Append(vs, ins.e))]
       ELSE newItem(ie, is, key, value)

IEAdd(ie, is, key, value) ==
    LET k == IniQKey(is, key)
        vs == valuesOf(ie, k)
    IN IF Len(vs) > 0
       THEN LET ins == InsertAfter(ie, iniLine(key, value), vs[Len(vs)])
            IN [ins.ie EXCEPT !.values = MapPut(@, k, Append(vs, ins.e))]
       ELSE newItem(ie, is, key, value)

\* appendItem that pushes the statement and forgets the gap before it
appendItem_DropsGap(ie, inp, r) ==
    LET p2 == IF r.EndIndex > r.StartIndex
              THEN PushBack(ie, SubSeq(inp, r.StartIndex + 1, r.EndIndex))
              ELSE [ie |-> ie, e |-> 0]
    IN [ie |-> p2.ie, e1 |-> p2.e, e2 |-> p2.e]

\* appendItem: [ie, e1, e2]
appendItem(ie, inp, r) ==
    LET p1 == IF r.StartIndex > r.PrevEndIndex
              THEN PushBack(ie, SubSeq(inp, r.PrevEndIndex + 1, r.StartIndex))
              ELSE [ie |-> ie, e |-> 0]
        p2 == IF r.EndIndex > r.StartIndex
              THEN PushBack(p1.ie, SubSeq(inp, r.StartIndex + 1, r.EndIndex))
              ELSE [ie |-> p1.ie, e |-> 0]
    IN [ie |-> p2.ie, e1 |-> IF p1.e = 0 THEN p2.e ELSE p1.e, e2 |-> p2.e]

\* the sink callbacks of the editor
\* Section that marks the insertion point of the section that starts, not
\* of the one that ends
IESection_MarksNew(ie, inp, ss) ==
    LET a == appendItem(ie, inp, ss.range)
    IN [a.ie EXCEPT !.secEnd = MapPut(@, SectionString(ss.sec), a.e1),
                    !.lastSec = ss.sec]

IESection(ie, inp, ss) ==
    LET a == appendItem(ie, inp, ss.range)
    IN [a.ie EXCEPT !.secEnd = MapPut(@, SectionString(ie.lastSec), a.e1),
                    !.lastSec = ss.sec]

IEItem(ie, inp, ii) ==
    LET k == IniQKey(ii.sec, ii.Key)
        a == appendItem(ie, inp, ii.range)
    IN [a.ie EXCEPT !.values = MapPut(@, k, Append(valuesOf(a.ie, k), a.e2))]

\* Done that leaves the insertion point of the last section unregistered
IEDone_NoMark(ie, inp, r) ==
    LET a == appendItem(ie, inp, r)
        p == IF a.e1 = 0 THEN PushBack(a.ie, <<>>) ELSE [ie |-> a.ie, e |-> a.e1]
    IN [p.ie EXCEPT !.lastSec = NilSec]

IEDone(ie, inp, r) ==
    LET a == appendItem(ie, inp, r)
        p == IF a.e1 = 0 THEN PushBack(a.ie, <<>>) ELSE [ie |-> a.ie, e |-> a.e1]
    IN [p.ie EXCEPT !.secEnd = MapPut(@, SectionString(ie.lastSec), p.e),
                    !.lastSec = NilSec]

(***************************************************************************)
(* The state machine: NewIniEdit(input), one statement per step, then any  *)
(* calls of Del, Set and Add.                                              *)
(***************************************************************************)
MaxChunks == 3
MaxEdits == 2

\* the lines the inputs are made of
Chunks ==
    << <<LBRACK, Ch.s, RBRACK, LF>>,                          \* [s]
       <<LBRACK, Ch.t, SP, DQ, Ch.x, DQ, RBRACK, LF>>,        \* [t "x"]
       <<Ch.a, EQ, Ch.one, LF>>,                              \* a=1
       <<Ch.a, SP, EQ, SP, Ch.two, LF>>,                      \* a = 2
       <<Ch.b, LF>>,                                          \* b    (no value)
       <<HASH, Ch.c, LF>>,                                    \* #c
       <<EQ, LF>>,                                            \* =    (a syntax error)
       <<Ch.a, EQ, Ch.one>> >>                                \* a=1  (no newline)

RECURSIVE Flatten(_)
Flatten(ss) == IF ss = <<>> THEN <<>> ELSE Head(ss) \o Flatten(Tail(ss))

Inputs ==
    { Flatten([i \in 1..n |-> Chunks[f[i]]]) :
        f \in UNION { [1..MaxChunks -> 1..Len(Chunks)] }, n \in 0..MaxChunks }

EditSecs == { NilSec, MkSec(<<Ch.s>>), MkSubSec(<<Ch.t>>, <<Ch.x>>) }
EditKeys == { <<Ch.a>> }
EditVals == { <<Ch.two>>, <<Ch.x, HASH>> }

NoOp == [op |-> "none", sec |-> NilSec, key |-> <<>>, value |-> <<>>]

\* input, l, phase, errs: one parse (the input, the cursor, where the call
\* is, the ParseErrors collected by do); ie, nEdits, lastOp, prevOp: the
\* editor and the last two edits; calls: the callbacks a recording sink has
\* received; val: the value a key line is rendered from
\* edits: the IniEdits batch of operations queued; retval: what the last call
\* returned; sink: a GenericIniSink with its slots and what it passed on to
\* Next; fs: a FeeStats and the target asked of it
\* envelope, usenet: the arguments of getAccounts; xga: its map of accounts;
\* goroutines: the lookups it has started; caller: where getAccounts itself is
VARIABLES input, l, phase, ie, errs, nEdits, lastOp, prevOp, calls, val,
          edits, retval, sink, fs, envelope, usenet, xga, goroutines, caller

vars == <<input, l, phase, ie, errs, nEdits, lastOp, prevOp, calls, val,
          edits, retval, sink, fs, envelope, usenet, xga, goroutines, caller>>

\* the variables of getAccounts, which the parser, the editor, the sink and
\* the fee statistics leave alone
conc == <<envelope, usenet, xga, goroutines, caller>>

NoConc ==
    /\ envelope = <<>>
    /\ usenet = FALSE
    /\ xga = <<>>
    /\ goroutines = <<>>
    /\ caller = <<>>

\* the variables of the edit script, the field-binding sink and the fee
\* statistics, which a parse and the editor's own methods leave alone
others == <<edits, retval, sink, fs>>

NoOthers == edits = <<>> /\ retval = "none" /\ sink = <<>> /\ fs = <<>>

Init ==
    /\ input \in Inputs
    /\ l = newParser
    /\ NoConc
    /\ phase = "parse"
    /\ ie = NewEditor
    /\ errs = <<>>
    /\ nEdits = 0
    /\ lastOp = NoOp
    /\ prevOp = NoOp
    /\ calls = <<>>
    /\ NoOthers
    /\ val = <<>>

\* what one do1 leaves behind: the cursor, the error appended by do, and the
\* editor after the callback it received
Deliver(r) ==
    /\ l' = r.l
    /\ phase' = IF r.panicked THEN "panic" ELSE "parse"
    /\ errs' = IF r.err.has THEN Append(errs, r.err) ELSE errs
    /\ ie' = IF r.ev.kind = "section" THEN IESection(ie, input, r.ev)
             ELSE IF r.ev.kind = "item" THEN IEItem(ie, input, r.ev)
             ELSE ie

\* one iteration of the loop of iniParse.do, the editor being the sink
ParseStep ==
    /\ phase = "parse"
    /\ remaining(input, l) > 0
    /\ Deliver(do1(input, l, "ok"))
    /\ UNCHANGED <<input, nEdits, lastOp, prevOp, calls, val, others, conc>>

\* the end of iniParse.do: l.done(l.getRange(l.index))
ParseDone ==
    /\ phase = "parse"
    /\ remaining(input, l) = 0
    /\ LET gr == getRange(input, l, l.index)
       IN /\ l' = gr.l
          /\ ie' = IEDone(ie, input, gr.range)
    /\ phase' = "edit"
    /\ UNCHANGED <<input, errs, nEdits, lastOp, prevOp, calls, val, others, conc>>

Del ==
    /\ phase = "edit"
    /\ nEdits < MaxEdits
    /\ \E is \in EditSecs, key \in EditKeys :
          /\ ie' = IEDel(ie, is, key)
          /\ lastOp' = [op |-> "Del", sec |-> is, key |-> key, value |-> <<>>]
    /\ prevOp' = lastOp
    /\ nEdits' = nEdits + 1
    /\ UNCHANGED <<input, l, phase, errs, calls, val, others, conc>>

Set ==
    /\ phase = "edit"
    /\ nEdits < MaxEdits
    /\ \E is \in EditSecs, key \in EditKeys, value \in EditVals :
          /\ ie' = IESet(ie, is, key, value)
          /\ lastOp' = [op |-> "Set", sec |-> is, key |-> key, value |-> value]
    /\ prevOp' = lastOp
    /\ nEdits' = nEdits + 1
    /\ UNCHANGED <<input, l, phase, errs, calls, val, others, conc>>

Add ==
    /\ phase = "edit"
    /\ nEdits < MaxEdits
    /\ \E is \in EditSecs, key \in EditKeys, value \in EditVals :
          /\ ie' = IEAdd(ie, is, key, value)
          /\ lastOp' = [op |-> "Add", sec |-> is, key |-> key, value |-> value]
    /\ prevOp' = lastOp
    /\ nEdits' = nEdits + 1
    /\ UNCHANGED <<input, l, phase, errs, calls, val, others, conc>>

Next == ParseStep \/ ParseDone \/ Del \/ Set \/ Add

Spec == Init /\ [][Next]_vars

(***************************************************************************)
(* One call of IniParseContents with a sink that provides every hook,      *)
(* records the callbacks it receives, and may fail any Item or Section     *)
(* callback, with a BadKey or with another error.                          *)
(***************************************************************************)
\* the lines these inputs are made of
PChunks ==
    << <<LBRACK, Ch.s, RBRACK, LF>>,                          \* [s]
       <<LBRACK, Ch.t, SP, DQ, Ch.x, DQ, RBRACK, LF>>,        \* [t "x"]
       <<LBRACK, Ch.s, LF>>,                                  \* [s      (no ']')
       <<Ch.a, EQ, Ch.one, LF>>,                              \* a=1
       <<TAB, Ch.a, SP, EQ, SP, Ch.two, LF>>,                 \* <tab>a = 2
       <<Ch.b, LF>>,                                          \* b       (no value)
       <<Ch.b, SP, SEMI, Ch.c, LF>>,                          \* b ;c
       <<Ch.b, SP, Ch.x, LF>>,                                \* b x     (no '=')
       <<HASH, Ch.c, LF>>,                                    \* #c
       <<SP, TAB, EQ, LF>>,                                   \* <sp><tab>=
       <<Ch.a, EQ, DQ, Ch.x, LF>>,                            \* a="x    (open quote)
       <<Ch.a, EQ, Ch.one, HASH, Ch.c, LF>>,                  \* a=1#c
       <<Ch.a, EQ, Ch.one>>,                                  \* a=1     (no newline)
       <<Ch.a, EQ, CR>>,                                      \* a=<cr>  (no newline)
       <<Ch.b, SP>>,                                          \* b<sp>   (no newline)
       <<LBRACK, Ch.t, SP, DQ, BSL, LF, DQ, RBRACK, LF>>,     \* [t "\<lf>"]
       <<LBRACK, Ch.t, SP, DQ, BSL, DQ>>,                     \* [t "\"  (no newline)
       <<LBRACK, MINUS, Ch.one, SP, DQ, BSL, NUL, DQ, RBRACK, LF>>, \* [-1 "\<nul>"]
       <<Ch.a, MINUS, Ch.one, EQ, LF>> >>                     \* a-1=

PInputs ==
    { Flatten([i \in 1..n |-> PChunks[f[i]]]) :
        f \in UNION { [1..MaxChunks -> 1..Len(PChunks)] }, n \in 0..MaxChunks }

\* what a callback returns: nil, a BadKey, or any other error
Returns == { "ok", "BadKey", "error" }

\* the record of one callback: what it was given and what it returned
MkCall(kind, ev, ret) ==
    [kind |-> kind, sec |-> ev.sec, Key |-> ev.Key, hasValue |-> ev.hasValue,
     Value |-> ev.Value, range |-> ev.range, ret |-> ret]

PInit ==
    /\ input \in PInputs
    /\ l = newParser
    /\ NoConc
    /\ phase = "new"
    /\ ie = NewEditor
    /\ errs = <<>>
    /\ nEdits = 0
    /\ lastOp = NoOp
    /\ prevOp = NoOp
    /\ calls = <<>>
    /\ NoOthers
    /\ val = <<>>

\* newParser: the hooks are taken from the sink and its Init is called
NewParser ==
    /\ phase = "new"
    /\ phase' = "parse"
    /\ calls' = Append(calls, MkCall("Init", NoEvent, "ok"))
    /\ UNCHANGED <<input, l, ie, errs, nEdits, lastOp, prevOp, val, others, conc>>

\* what one do1 leaves behind when its callback returned ret
Record(r, ret) ==
    /\ l' = r.l
    /\ phase' = IF r.panicked THEN "panic" ELSE "parse"
    /\ errs' = IF r.err.has THEN Append(errs, r.err) ELSE errs
    /\ calls' = IF r.ev.kind = "none" THEN calls
                ELSE Append(calls, MkCall(r.ev.kind, r.ev, ret))

\* one iteration of the loop of iniParse.do
Statement ==
    /\ phase = "parse"
    /\ remaining(input, l) > 0
    /\ \E ret \in Returns : Record(do1(input, l, ret), ret)
    /\ UNCHANGED <<input, ie, nEdits, lastOp, prevOp, val, others, conc>>

\* the end of iniParse.do: l.done(l.getRange(l.index)), and the errors are
\* returned
Finish ==
    /\ phase = "parse"
    /\ remaining(input, l) = 0
    /\ LET gr == getRange(input, l, l.index)
       IN /\ l' = gr.l
          /\ calls' = Append(calls, MkCall("Done", [NoEvent EXCEPT !.range = gr.range], "ok"))
    /\ phase' = "done"
    /\ UNCHANGED <<input, ie, errs, nEdits, lastOp, prevOp, val, others, conc>>

PNext == NewParser \/ Statement \/ Finish

ParseSpec == PInit /\ [][PNext]_vars

(***************************************************************************)
(* A value rendered by the editor and read back: iniLine on a key and any  *)
(* byte string, then one call of IniParseContents on that line.            *)
(***************************************************************************)
MaxValLen == 3

\* a letter, the letter of an escape, blanks, controls, the bytes that need
\* quoting, DEL and a byte above it
EscBytes == { Ch.a, Lower_n, SP, TAB, LF, CR, BS, NUL, DQ, BSL, HASH, SEMI, DEL, 128 }

EscVals == UNION { [1..n -> EscBytes] : n \in 0..MaxValLen }

EInit ==
    /\ val \in EscVals
    /\ input = <<>>
    /\ l = newParser
    /\ NoConc
    /\ phase = "render"
    /\ ie = NewEditor
    /\ errs = <<>>
    /\ nEdits = 0
    /\ lastOp = NoOp
    /\ prevOp = NoOp
    /\ calls = <<>>
    /\ NoOthers

\* the line newItem, Set and Add write for key a and value val
Render ==
    /\ phase = "render"
    /\ input' = iniLine(<<Ch.a>>, val)
    /\ phase' = "new"
    /\ UNCHANGED <<l, ie, errs, nEdits, lastOp, prevOp, calls, val, others, conc>>

ENext == Render \/ NewParser \/ Statement \/ Finish

EscSpec == EInit /\ [][ENext]_vars


(***************************************************************************)
(* An edit script: an editor built by NewIniEdit from a document, an       *)
(* IniEdits batch filled by calls of its Del, Add and Set with any number  *)
(* of arguments, and Apply of the batch to the editor.                     *)
(***************************************************************************)
MaxArgs == 4
MaxCalls == 2

\* the loop of iniParse.do with the editor as the sink
RECURSIVE editLoop(_, _, _)
editLoop(inp, l0, ed) ==
    IF remaining(inp, l0) > 0
    THEN With(do1(inp, l0, "ok"), LAMBDA r :
         editLoop(inp, r.l,
                  IF r.ev.kind = "section" THEN IESection(ed, inp, r.ev)
                  ELSE IF r.ev.kind = "item" THEN IEItem(ed, inp, r.ev)
                  ELSE ed))
    ELSE IEDone(ed, inp, getRange(inp, l0, l0.index).range)

NewIniEdit(contents) == editLoop(contents, newParser, NewEditor)

\* Del that takes three arguments for two
IniEditsDel_AcceptsThree(es, sec, args) ==
    IF Len(args) \notin {1, 2, 3}
    THEN [edits |-> es, err |-> "ErrInvalidNumArgs"]
    ELSE With(IF Len(args) = 1 THEN MkSec(sec) ELSE MkSubSec(sec, args[1]), LAMBDA s :
         IF ~SectionValid(s)
         THEN [edits |-> es, err |-> "ErrInvalidSection"]
         ELSE [edits |-> Append(es, [op |-> "Del", sec |-> s, key |-> args[Len(args)],
                                     value |-> <<>>]),
               err |-> "nil"])

\* IniEdits.Del: [edits, err]
IniEditsDel(es, sec, args) ==
    IF Len(args) \notin {1, 2}
    THEN [edits |-> es, err |-> "ErrInvalidNumArgs"]
    ELSE With(IF Len(args) = 1 THEN MkSec(sec) ELSE MkSubSec(sec, args[1]), LAMBDA s :
         IF ~SectionValid(s)
         THEN [edits |-> es, err |-> "ErrInvalidSection"]
         ELSE [edits |-> Append(es, [op |-> "Del", sec |-> s, key |-> args[Len(args)],
                                     value |-> <<>>]),
               err |-> "nil"])

\* IniEdits.Add: [edits, err]
IniEditsAdd(es, sec, args) ==
    IF Len(args) \notin {2, 3}
    THEN [edits |-> es, err |-> "ErrInvalidNumArgs"]
    ELSE With(IF Len(args) = 2 THEN MkSec(sec) ELSE MkSubSec(sec, args[1]), LAMBDA s :
         IF ~SectionValid(s)
         THEN [edits |-> es, err |-> "ErrInvalidSection"]
         ELSE [edits |-> Append(es, [op |-> "Add", sec |-> s, key |-> args[Len(args) - 1],
                                     value |-> args[Len(args)]]),
               err |-> "nil"])

\* IniEdits.Set: [edits, err]
IniEditsSet(es, sec, args) ==
    IF Len(args) \notin {2, 3}
    THEN [edits |-> es, err |-> "ErrInvalidNumArgs"]
    ELSE With(IF Len(args) = 2 THEN MkSec(sec) ELSE MkSubSec(sec, args[1]), LAMBDA s :
         IF ~SectionValid(s)
         THEN [edits |-> es, err |-> "ErrInvalidSection"]
         ELSE [edits |-> Append(es, [op |-> "Set", sec |-> s, key |-> args[Len(args) - 1],
                                     value |-> args[Len(args)]]),
               err |-> "nil"])

\* IniQKey panics on the arguments of the queued operation f
QKeyPanics(f) == ~SectionValid(f.sec) \/ ~ValidIniKey(f.key)

\* the call of one queued closure on the target
CallEdit(f, target) ==
    IF f.op = "Del" THEN IEDel(target, f.sec, f.key)
    ELSE IF f.op = "Set" THEN IESet(target, f.sec, f.key, f.value)
    ELSE IEAdd(target, f.sec, f.key, f.value)

\* the loop of IniEdits.Apply from the i-th closure on; a panic leaves the
\* loop before *ie = nil
RECURSIVE applyLoop(_, _, _)
applyLoop(es, i, target) ==
    IF i > Len(es) THEN [target |-> target, edits |-> <<>>, panicked |-> FALSE]
    ELSE IF QKeyPanics(es[i]) THEN [target |-> target, edits |-> es, panicked |-> TRUE]
    ELSE applyLoop(es, i + 1, CallEdit(es[i], target))

\* Apply that starts at the second closure
IniEditsApply_SkipsFirst(es, target) == applyLoop(es, 2, target)

\* IniEdits.Apply: [target, edits, panicked]
IniEditsApply(es, target) == applyLoop(es, 1, target)

\* the documents the editor is built from
ScriptDocs ==
    { <<>>,
      <<Ch.a, EQ, Ch.one, LF>>,
      <<LBRACK, Ch.s, RBRACK, LF, Ch.a, EQ, Ch.one, LF,
        LBRACK, Ch.s, SP, DQ, Ch.a, DQ, RBRACK, LF, Ch.a, EQ, Ch.one, LF>> }

\* section names given to the script: a legal one and the empty one
ScriptSecs == { <<Ch.s>>, <<>> }

\* the strings given as further arguments: as a subsection the third is
\* illegal, as a key the second and the third are
ArgStrs == { <<Ch.a>>, <<Ch.one>>, <<LF>> }

ArgLists == UNION { [1..n -> ArgStrs] : n \in 0..MaxArgs }

SInit ==
    /\ input \in ScriptDocs
    /\ l = newParser
    /\ NoConc
    /\ phase = "script"
    /\ ie = NewIniEdit(input)
    /\ errs = <<>>
    /\ nEdits = 0
    /\ lastOp = NoOp
    /\ prevOp = NoOp
    /\ calls = <<>>
    /\ val = <<>>
    /\ edits = <<>>
    /\ retval = "none"
    /\ sink = <<>>
    /\ fs = <<>>

\* what a call of Del, Add or Set of the batch leaves behind
Queued(name, sec, args, r) ==
    /\ edits' = r.edits
    /\ retval' = r.err
    /\ lastOp' = [op |-> name, sec |-> sec, args |-> args]
    /\ nEdits' = nEdits + 1
    /\ UNCHANGED <<input, l, phase, ie, errs, prevOp, calls, val, sink, fs, conc>>

ScriptDel ==
    /\ phase = "script"
    /\ nEdits < MaxCalls
    /\ \E sec \in ScriptSecs, args \in ArgLists :
          Queued("Del", sec, args, IniEditsDel(edits, sec, args))

ScriptAdd ==
    /\ phase = "script"
    /\ nEdits < MaxCalls
    /\ \E sec \in ScriptSecs, args \in ArgLists :
          Queued("Add", sec, args, IniEditsAdd(edits, sec, args))

ScriptSet ==
    /\ phase = "script"
    /\ nEdits < MaxCalls
    /\ \E sec \in ScriptSecs, args \in ArgLists :
          Queued("Set", sec, args, IniEditsSet(edits, sec, args))

\* what Apply leaves behind
Applied(r) ==
    /\ ie' = r.target
    /\ edits' = r.edits
    /\ phase' = IF r.panicked THEN "panic" ELSE "script"
    /\ retval' = "none"
    /\ lastOp' = [op |-> "Apply", sec |-> <<>>, args |-> <<>>]
    /\ UNCHANGED <<input, l, errs, nEdits, prevOp, calls, val, sink, fs, conc>>

ScriptApply ==
    /\ phase = "script"
    /\ Applied(IniEditsApply(edits, ie))

SNext == ScriptDel \/ ScriptAdd \/ ScriptSet \/ ScriptApply

ScriptSpec == SInit /\ [][SNext]_vars


(***************************************************************************)
(* A GenericIniSink with a string field a and an int field b, with or      *)
(* without a section to match and a Next sink, receiving items.            *)
(***************************************************************************)
MaxItems == 2

\* IniSection.Eq
IniSectionEq(s, s2) ==
    IF s.isnil /\ s2.isnil THEN TRUE
    ELSE IF s.isnil \/ s2.isnil THEN FALSE
    ELSE IF s.Section # s2.Section THEN FALSE
    ELSE IF ~s.hasSub /\ ~s2.hasSub THEN TRUE
    ELSE IF ~s.hasSub \/ ~s2.hasSub THEN FALSE
    ELSE s.Subsection = s2.Subsection

isDigit(c) == c >= 48 /\ c <= 57

\* the number a string of digits spells
RECURSIVE atoi(_, _)
atoi(s, acc) == IF s = <<>> THEN acc ELSE atoi(Tail(s), 10 * acc + (Head(s) - 48))

\* the end of the run of digits that starts at offset i
RECURSIVE digitsEnd(_, _)
digitsEnd(s, i) == IF i < Len(s) /\ isDigit(s[i + 1]) THEN digitsEnd(s, i + 1) ELSE i

\* the first offset at or after i that holds no space
RECURSIVE spacesEnd(_, _)
spacesEnd(s, i) ==
    IF i < Len(s) /\ s[i + 1] \in {SP, TAB, CR, LF} THEN spacesEnd(s, i + 1) ELSE i

\* fmt.Sscan into an *int: leading space is skipped and the digits that
\* follow are read; without a digit the slot is left alone and an error is
\* returned
Sscan(text, old) ==
    IF digitsEnd(text, spacesEnd(text, 0)) = spacesEnd(text, 0)
    THEN [v |-> old, err |-> "scan error"]
    ELSE [v |-> atoi(SubSeq(text, spacesEnd(text, 0) + 1,
                            digitsEnd(text, spacesEnd(text, 0))), 0),
          err |-> "nil"]

\* reflect.Zero of the type of a slot
ZeroOf(slot) == IF slot.kind = "string" THEN <<>> ELSE 0

\* GenericIniSink.Item, nextret being what Next.Item returns: [sink, err]
GenericIniSinkItem(s, ii, nextret) ==
    IF IniSectionEq(s.Sec, ii.sec) /\ ii.Key \in DOMAIN s.Fields
    THEN IF ~ii.hasValue
         THEN [sink |-> [s EXCEPT !.Fields[ii.Key].v = ZeroOf(s.Fields[ii.Key])],
               err |-> "nil"]
         ELSE IF s.Fields[ii.Key].kind = "string"
         THEN [sink |-> [s EXCEPT !.Fields[ii.Key].v = ii.Value], err |-> "nil"]
         ELSE [sink |-> [s EXCEPT !.Fields[ii.Key].v = Sscan(ii.Value, @).v],
               err |-> Sscan(ii.Value, s.Fields[ii.Key].v).err]
    ELSE IF s.hasNext
         THEN [sink |-> [s EXCEPT !.next = Append(@, ii)], err |-> nextret]
    ELSE [sink |-> s, err |-> "nil"]

\* the sections a sink matches (nil: none set) and items come in
SinkSecs == { NilSec, MkSec(<<Ch.s>>), MkSubSec(<<Ch.t>>, <<Ch.x>>) }

\* a string field, an int field, and a key that is no field
SinkKeys == { <<Ch.a>>, <<Ch.b>>, <<Ch.c>> }

\* the values of items: a number, a number after a blank, and no number
SinkVals == { <<Ch.one, Ch.two>>, <<SP, Ch.two>>, <<Ch.x>> }

SinkItems ==
    { [sec |-> sec, Key |-> k, hasValue |-> TRUE, Value |-> v] :
        sec \in SinkSecs, k \in SinkKeys, v \in SinkVals }
    \cup { [sec |-> sec, Key |-> k, hasValue |-> FALSE, Value |-> <<>>] :
        sec \in SinkSecs, k \in SinkKeys }

\* the fields registered, holding values set earlier
SinkFields ==
    (<<Ch.a>> :> [kind |-> "string", v |-> <<Ch.x>>])
    @@ (<<Ch.b>> :> [kind |-> "int", v |-> 5])

KInit ==
    /\ input = <<>>
    /\ l = newParser
    /\ NoConc
    /\ phase = "sink"
    /\ ie = NewEditor
    /\ errs = <<>>
    /\ nEdits = 0
    /\ lastOp = NoOp
    /\ prevOp = NoOp
    /\ calls = <<>>
    /\ val = <<>>
    /\ edits = <<>>
    /\ retval = "none"
    /\ \E sec \in {NilSec, MkSec(<<Ch.s>>)}, hasNext \in BOOLEAN :
          sink = [Sec |-> sec, Fields |-> SinkFields, hasNext |-> hasNext, next |-> <<>>]
    /\ fs = <<>>

\* what a call of Item leaves behind
Bound(ii, nextret, r) ==
    /\ sink' = r.sink
    /\ retval' = r.err
    /\ lastOp' = [op |-> "Item", item |-> ii, nextret |-> nextret]
    /\ nEdits' = nEdits + 1
    /\ UNCHANGED <<input, l, phase, ie, errs, prevOp, calls, val, edits, fs, conc>>

SinkItem ==
    /\ phase = "sink"
    /\ nEdits < MaxItems
    /\ \E ii \in SinkItems, nextret \in {"nil", "error"} :
          Bound(ii, nextret, GenericIniSinkItem(sink, ii, nextret))

KNext == SinkItem

SinkSpec == KInit /\ [][KNext]_vars


(***************************************************************************)
(* FeeStats.Percentile on fee statistics sorted by percentile.  Fees are   *)
(* unsigned integers of FeeWidth bits, standing for Go's uint32: 1 + fee   *)
(* wraps around at 2^FeeWidth as it does at 2^32.                          *)
(***************************************************************************)
FeeWidth == 4
MaxPercentiles == 3

FeeModulus == 2 ^ FeeWidth

\* the loop of Percentile; a hit on the target breaks out of it
RECURSIVE percentileLoop(_, _, _, _, _)
percentileLoop(ps, target, lo, hi, fee) ==
    IF ~(lo < hi) THEN fee
    ELSE With((lo + hi) \div 2, LAMBDA n :
         IF ps[n + 1].Percentile = target THEN ps[n + 1].Fee
         ELSE IF ps[n + 1].Percentile > target
              THEN percentileLoop(ps, target, lo, n,
                                  IF fee > ps[n + 1].Fee THEN ps[n + 1].Fee ELSE fee)
         ELSE percentileLoop(ps, target, n + 1, hi, fee))

\* FeeStats.Percentile
Percentile(stats, target) ==
    With(percentileLoop(stats.Percentiles, target, 0, Len(stats.Percentiles),
                        IF Len(stats.Percentiles) > 0
                        THEN (1 + stats.Percentiles[Len(stats.Percentiles)].Fee) % FeeModulus
                        ELSE 0), LAMBDA fee :
    IF fee < stats.Last_ledger_base_fee THEN stats.Last_ledger_base_fee ELSE fee)

\* the percentiles known and asked for, and the fees: the smallest, two
\* small ones and the largest a fee can be
KnownPercentiles == { 10, 50, 90 }
Targets == { 5, 10, 50, 60, 95 }
Fees == { 0, 1, 2, FeeModulus - 1 }

\* lists of at most MaxPercentiles entries in ascending order of percentile,
\* as sort.Slice of GetFeeStats leaves them
SortedPercentiles ==
    { ps \in UNION { [1..n -> [Percentile : KnownPercentiles, Fee : Fees]] :
                       n \in 0..MaxPercentiles } :
        \A i \in 1..(Len(ps) - 1) : ps[i].Percentile < ps[i + 1].Percentile }

FInit ==
    /\ input = <<>>
    /\ l = newParser
    /\ NoConc
    /\ phase = "fee"
    /\ ie = NewEditor
    /\ errs = <<>>
    /\ nEdits = 0
    /\ lastOp = NoOp
    /\ prevOp = NoOp
    /\ calls = <<>>
    /\ val = <<>>
    /\ edits = <<>>
    /\ retval = "none"
    /\ sink = <<>>
    /\ \E ps \in SortedPercentiles, base \in Fees, target \in Targets :
          fs = [Last_ledger_base_fee |-> base, Percentiles |-> ps, target |-> target]

\* a call of fs.Percentile(target)
AskPercentile ==
    /\ phase = "fee"
    /\ retval' = Percentile(fs, fs.target)
    /\ phase' = "asked"
    /\ UNCHANGED <<input, l, ie, errs, nEdits, lastOp, prevOp, calls, val, edits, sink, fs, conc>>

FNext == AskPercentile

FeeSpec == FInit /\ [][FNext]_vars


(***************************************************************************)
(* getAccounts of the stc command: one lookup goroutine for each account   *)
(* of the envelope, each reporting once on the unbuffered channel c.       *)
(***************************************************************************)
MaxAccounts == 2
MaxFields == 3
\* the account whose String() is GAAA...AWHF, which getAccounts skips
ZeroAccount == 0

AccountIDs == 0..MaxAccounts
\* a TransactionEnvelope, as the AccountID fields XdrMarshal visits in order
Envelopes == UNION { [1..n -> AccountIDs] : n \in 0..MaxFields }

\* xdrGetAccounts.Marshal on an *stx.AccountID: a new acctInfo, its signers
\* nil, unless the account already has one
Marshal(accounts, v) ==
    IF HasKey(accounts, v) THEN accounts
    ELSE [k \in DOMAIN accounts \cup {v} |->
            IF k = v THEN [signers |-> <<>>] ELSE accounts[k]]

RECURSIVE XdrMarshal(_, _)
XdrMarshal(accounts, fields) ==
    IF fields = <<>> THEN accounts
    ELSE XdrMarshal(Marshal(accounts, Head(fields)), Tail(fields))

\* what net.GetAccountEntry can return for an account: nil when the request
\* fails, or the entry Horizon holds, here one with a second signer
NilEntry == [isnil |-> TRUE, Signers |-> <<>>]
HorizonEntry(ac) ==
    [isnil |-> FALSE, Signers |-> <<[Key |-> ac], [Key |-> MaxAccounts + 1]>>]
GetAccountEntry(ac) == { NilEntry, HorizonEntry(ac) }

\* the signers a goroutine stores: those of the entry, or the account itself
storedSigners(g) == IF ~g.ae.isnil THEN g.ae.Signers ELSE <<[Key |-> g.ac]>>

\* the number of messages the caller takes from c
NumReceives_OneFewer(accounts) == Cardinality(DOMAIN accounts) - 1

NumReceives(accounts) == Cardinality(DOMAIN accounts)

\* whether some goroutine holding the acctInfo of ac has not yet had its
\* message received: its store is not ordered before a read by the caller
Racing(ac) ==
    \E g \in DOMAIN goroutines :
        goroutines[g].infp = ac /\ goroutines[g].pc # "done"

\* the values a read of the signers of ac can yield: the stored slice, or,
\* when the read races with a goroutine's store, any of the slices
Visible(ac) ==
    IF Racing(ac)
    THEN { <<>>, <<[Key |-> ac]>>, HorizonEntry(ac).Signers }
    ELSE { xga.accounts[ac].signers }

\* net.Signers.Add for each signer read, with the comment naming the account
\* when the key is not the account's own
addSigners(acs, sv) ==
    { [Key |-> sv[j].Key, comment |-> IF acs # sv[j].Key THEN <<acs>> ELSE <<>>] :
        j \in DOMAIN sv }

AInit ==
    /\ input = <<>>
    /\ phase = "accounts"
    /\ ie = NewEditor
    /\ errs = <<>>
    /\ nEdits = 0
    /\ lastOp = NoOp
    /\ prevOp = NoOp
    /\ calls = <<>>
    /\ val = <<>>
    /\ NoOthers
    /\ l = newParser
    /\ envelope \in Envelopes
    /\ usenet \in BOOLEAN
    /\ xga = [accounts |-> XdrMarshal(EmptyMap, envelope)]
    /\ goroutines = <<>>
    /\ caller = [pc |-> "spawn", rest |-> DOMAIN XdrMarshal(EmptyMap, envelope),
                 i |-> 0, read |-> EmptyMap, Signers |-> {}]

\* one round of the first range loop: the go statement, its arguments
\* evaluated by the caller
Go(ac) ==
    /\ caller.pc = "spawn"
    /\ ac \in caller.rest
    /\ goroutines' = Append(goroutines,
                        [pc |-> "lookup", ac |-> ac, infp |-> ac,
                         ae |-> NilEntry, sent |-> 0])
    /\ caller' = [caller EXCEPT !.rest = @ \ {ac}]
    /\ UNCHANGED <<input, l, phase, ie, errs, nEdits, lastOp, prevOp, calls, val,
                   others, envelope, usenet, xga>>

\* the range loop ends; i := 0
Spawned ==
    /\ caller.pc = "spawn"
    /\ caller.rest = {}
    /\ caller' = [caller EXCEPT !.pc = "recv", !.i = 0]
    /\ UNCHANGED <<input, l, phase, ie, errs, nEdits, lastOp, prevOp, calls, val,
                   others, envelope, usenet, xga, goroutines>>

\* a goroutine's lookup, over the network only if usenet
Lookup(g) ==
    /\ g \in DOMAIN goroutines
    /\ goroutines[g].pc = "lookup"
    /\ \E ae \in IF usenet THEN GetAccountEntry(goroutines[g].ac) ELSE {NilEntry} :
          goroutines' = [goroutines EXCEPT ![g].ae = ae, ![g].pc = "store"]
    /\ UNCHANGED <<input, l, phase, ie, errs, nEdits, lastOp, prevOp, calls, val,
                   others, envelope, usenet, xga, caller>>

\* a goroutine's assignment to infp.signers
Store(g) ==
    /\ g \in DOMAIN goroutines
    /\ goroutines[g].pc = "store"
    /\ xga' = [xga EXCEPT !.accounts[goroutines[g].infp].signers =
                              storedSigners(goroutines[g])]
    /\ goroutines' = [goroutines EXCEPT ![g].pc = "send"]
    /\ UNCHANGED <<input, l, phase, ie, errs, nEdits, lastOp, prevOp, calls, val,
                   others, envelope, usenet, caller>>

\* c is unbuffered: the send of a goroutine and a receive of the caller
\* happen together, and the goroutine ends
Receive(g) ==
    /\ caller.pc = "recv"
    /\ caller.i < NumReceives(xga.accounts)
    /\ g \in DOMAIN goroutines
    /\ goroutines[g].pc = "send"
    /\ goroutines' = [goroutines EXCEPT ![g].pc = "done", ![g].sent = @ + 1]
    /\ caller' = [caller EXCEPT !.i = @ + 1]
    /\ UNCHANGED <<input, l, phase, ie, errs, nEdits, lastOp, prevOp, calls, val,
                   others, envelope, usenet, xga>>

\* the receive loop ends
Received ==
    /\ caller.pc = "recv"
    /\ ~(caller.i < NumReceives(xga.accounts))
    /\ caller' = [caller EXCEPT !.pc = "read", !.rest = DOMAIN xga.accounts]
    /\ UNCHANGED <<input, l, phase, ie, errs, nEdits, lastOp, prevOp, calls, val,
                   others, envelope, usenet, xga, goroutines>>

\* one round of the second range loop: the zero account is skipped, the
\* signers of any other are read and added to net.Signers
ReadSigners(ac) ==
    /\ caller.pc = "read"
    /\ ac \in caller.rest
    /\ IF ac = ZeroAccount
       THEN caller' = [caller EXCEPT !.rest = @ \ {ac}]
       ELSE \E sv \in Visible(ac) :
               caller' = [caller EXCEPT
                             !.rest = @ \ {ac},
                             !.read = [k \in DOMAIN @ \cup {ac} |->
                                          IF k = ac THEN sv ELSE @[k]],
                             !.Signers = @ \cup addSigners(ac, sv)]
    /\ UNCHANGED <<input, l, phase, ie, errs, nEdits, lastOp, prevOp, calls, val,
                   others, envelope, usenet, xga, goroutines>>

\* getAccounts returns
Return ==
    /\ caller.pc = "read"
    /\ caller.rest = {}
    /\ caller' = [caller EXCEPT !.pc = "done"]
    /\ UNCHANGED <<input, l, phase, ie, errs, nEdits, lastOp, prevOp, calls, val,
                   others, envelope, usenet, xga, goroutines>>

ANext ==
    \/ \E ac \in AccountIDs : Go(ac)
    \/ Spawned
    \/ \E g \in 1..(MaxAccounts + 1) : Lookup(g)
    \/ \E g \in 1..(MaxAccounts + 1) : Store(g)
    \/ \E g \in 1..(MaxAccounts + 1) : Receive(g)
    \/ Received
    \/ \E ac \in AccountIDs : ReadSigners(ac)
    \/ Return

\* the Go scheduler runs a goroutine that can take a step, and a lookup
\* returns, so some enabled step is eventually taken
AccountsSpec == AInit /\ [][ANext]_vars /\ WF_vars(ANext)


(***************************************************************************)
(* Reading a byte string back: iniParse.do with a sink that records the    *)
(* callbacks it receives and always succeeds.                              *)
(***************************************************************************)
RECURSIVE doLoop(_, _, _, _)
doLoop(inp, l0, evs, es) ==
    IF ~(remaining(inp, l0) > 0) THEN [evs |-> evs, errs |-> es, panicked |-> FALSE]
    ELSE LET r == do1(inp, l0, "ok")
         IN IF r.panicked THEN [evs |-> evs, errs |-> es, panicked |-> TRUE]
            ELSE doLoop(inp, r.l,
                        IF r.ev.kind = "none" THEN evs ELSE Append(evs, r.ev),
                        IF r.err.has THEN Append(es, r.err) ELSE es)

IniParseContents(inp) == doLoop(inp, newParser, <<>>, <<>>)

Range(f) == { f[x] : x \in DOMAIN f }

isItem(ev) == ev.kind = "item"

ItemsOf(evs) == SelectSeq(evs, isItem)

\* the values delivered for qualified key k, in order
ValuesByKey(evs, k) ==
    LET its == SelectSeq(evs, LAMBDA ev : ev.kind = "item" /\ IniQKey(ev.sec, ev.Key) = k)
    IN [i \in 1..Len(its) |-> [hasValue |-> its[i].hasValue, Value |-> its[i].Value]]

\* what the bytes of one fragment are, read on their own: "item" (one line
\* assigning a key), "section" (one header) or "other"
FragKind(rp) ==
    IF ~rp.panicked /\ rp.errs = <<>> /\ Len(rp.evs) = 1 THEN rp.evs[1].kind ELSE "other"

\* the document read fragment by fragment, from position pos on, sec being
\* the section of the closest header fragment before pos: for every
\* fragment its element e, its kind and, for a key line, the qualified key
\* and the value it assigns
RECURSIVE analyze(_, _, _, _)
analyze(ed, pos, sec, acc) ==
    IF pos > Len(ed.fragments) THEN acc
    ELSE LET e == ed.fragments[pos]
             rp == IniParseContents(ed.Value[e])
             kind == FragKind(rp)
             ev == rp.evs[1]
         IN analyze(ed, pos + 1,
                    IF kind = "section" THEN ev.sec ELSE sec,
                    Append(acc,
                           IF kind = "item"
                           THEN [e |-> e, kind |-> kind, qkey |-> IniQKey(sec, ev.Key),
                                 hasValue |-> ev.hasValue, Value |-> ev.Value]
                           ELSE [e |-> e, kind |-> kind, qkey |-> <<>>,
                                 hasValue |-> FALSE, Value |-> <<>>]))

Analyze(ed) == analyze(ed, 1, NilSec, <<>>)

\* the fragments of the document that are lines assigning k, in document order
Realizations(ed, k) ==
    LET an == SelectSeq(Analyze(ed), LAMBDA a : a.kind = "item" /\ a.qkey = k)
    IN [i \in 1..Len(an) |-> an[i].e]

\* the fragments not indexed under k, in document order
OtherFrags(ed, k) ==
    SelectSeq(ed.fragments, LAMBDA e : e \notin Range(valuesOf(ed, k)))

EditStep == nEdits' = nEdits + 1

LastKey == IniQKey(lastOp.sec, lastOp.key)

(***************************************************************************)
(* C1.  With no edit applied the document is the input, byte for byte:     *)
(* while the input is parsed the fragments pushed so far are exactly the   *)
(* bytes up to the end of the last statement delivered, and when           *)
(* NewIniEdit has completed they are the whole input (syntax errors or     *)
(* not).                                                                   *)
(***************************************************************************)
C1_RoundTrip ==
    /\ phase = "parse" => WriteTo(ie) = SubSeq(input, 1, l.prevEnd)
    /\ (phase = "edit" /\ nEdits = 0) =>
          /\ WriteTo(ie) = input
          /\ \A i \in 1..Len(ie.fragments) :
                ie.Value[ie.fragments[i]] = <<>> => i = Len(ie.fragments)

C1_Witness ==
    /\ phase = "edit" /\ nEdits = 0
    /\ errs # <<>>
    /\ Len(ie.fragments) >= 4
    /\ Cardinality(DOMAIN ie.secEnd) >= 2
    /\ DOMAIN ie.values # {}

(***************************************************************************)
(* C2.  Whatever was edited, reading the serialized document back reports  *)
(* no more syntax errors than the input had and delivers, for every        *)
(* qualified key, the values of the lines the editor holds for that key,   *)
(* in index order.                                                         *)
(***************************************************************************)
HeldValues(ed, k) ==
    LET vs == valuesOf(ed, k)
    IN [i \in 1..Len(vs) |->
          LET ev == IniParseContents(ed.Value[vs[i]]).evs[1]
          IN [hasValue |-> ev.hasValue, Value |-> ev.Value]]

C2_ReparseAgrees ==
    phase = "edit" =>
        LET rp == IniParseContents(WriteTo(ie))
            keys == (DOMAIN ie.values)
                    \cup { IniQKey(ev.sec, ev.Key) : ev \in Range(ItemsOf(rp.evs)) }
        IN /\ ~rp.panicked
           /\ Len(rp.errs) <= Len(errs)
           /\ \A k \in keys : ValuesByKey(rp.evs, k) = HeldValues(ie, k)


(***************************************************************************)
(* C3.  A Del, Set or Add of key K in a section that already has an        *)
(* insertion point leaves every fragment not indexed under K in place:     *)
(* the same elements, in the same order, with the same bytes, so the       *)
(* document without K's lines is the same before and after.                *)
(***************************************************************************)
C3_FrameStep ==
    (EditStep /\ HasKey(ie.secEnd, SectionString(lastOp'.sec))) =>
        LET k == IniQKey(lastOp'.sec, lastOp'.key)
        IN /\ OtherFrags(ie', k) = OtherFrags(ie, k)
           /\ \A e \in Range(OtherFrags(ie, k)) : ie'.Value[e] = ie.Value[e]
           /\ writeAll(ie', OtherFrags(ie', k)) = writeAll(ie, OtherFrags(ie, k))

C3_Frame == [][C3_FrameStep]_vars

\* an Add to a key of the preamble that the input assigns, among other lines
C3_Witness ==
    /\ phase = "edit" /\ nEdits = 1
    /\ lastOp.op = "Add" /\ lastOp.sec = NilSec
    /\ Len(valuesOf(ie, LastKey)) >= 2
    /\ Len(OtherFrags(ie, LastKey)) >= 3

(***************************************************************************)
(* C4.  Once NewIniEdit has completed, and after every edit: each handle   *)
(* in the key index under K is an element of the fragment list whose bytes *)
(* are one line assigning K's key, lying in K's section; no handle occurs  *)
(* twice in the index; and every fragment of the list that is a key line   *)
(* is in the index under its qualified key.                                *)
(***************************************************************************)
C4_IndexConsistent ==
    phase = "edit" =>
        LET an == Analyze(ie)
        IN /\ \A k \in DOMAIN ie.values : \A i \in 1..Len(ie.values[k]) :
                 \E pos \in 1..Len(an) :
                    /\ an[pos].e = ie.values[k][i]
                    /\ an[pos].kind = "item"
                    /\ an[pos].qkey = k
           /\ \A k1 \in DOMAIN ie.values, k2 \in DOMAIN ie.values :
                 \A i1 \in 1..Len(ie.values[k1]), i2 \in 1..Len(ie.values[k2]) :
                    ie.values[k1][i1] = ie.values[k2][i2] => (k1 = k2 /\ i1 = i2)
           /\ \A pos \in 1..Len(an) :
                 an[pos].kind = "item" => an[pos].e \in Range(valuesOf(ie, an[pos].qkey))

\* three keys indexed after two edits, one of them with two lines
C4_Witness ==
    /\ phase = "edit" /\ nEdits = 2
    /\ Cardinality(DOMAIN ie.values) >= 3
    /\ \E k \in DOMAIN ie.values : Len(ie.values[k]) >= 2
    /\ lastOp.op = "Set" /\ prevOp.op = "Del"

(***************************************************************************)
(* C5.  The key index never maps a key to an empty list of handles.        *)
(***************************************************************************)
C5_NoEmptyEntry == \A k \in DOMAIN ie.values : Len(ie.values[k]) >= 1

\* a key that was added, then deleted: it is absent, not mapped to nothing
C5_Witness ==
    /\ phase = "edit" /\ nEdits = 2
    /\ prevOp.op = "Add" /\ lastOp.op = "Del"
    /\ prevOp.sec = lastOp.sec /\ prevOp.key = lastOp.key
    /\ ~HasKey(ie.values, LastKey)
    /\ DOMAIN ie.values # {}

(***************************************************************************)
(* C6.  Del of a key that is in the index removes exactly the fragments    *)
(* indexed under it, drops the entry, and leaves no line assigning the     *)
(* key in the document; Del of a key that is not in the index changes      *)
(* neither the fragment list nor the two indices.                          *)
(***************************************************************************)
C6_DelStep ==
    (EditStep /\ lastOp'.op = "Del") =>
        LET k == IniQKey(lastOp'.sec, lastOp'.key)
        IN IF HasKey(ie.values, k)
           THEN /\ ie'.fragments = OtherFrags(ie, k)
                /\ \A e \in Range(ie'.fragments) : ie'.Value[e] = ie.Value[e]
                /\ ie'.values = MapDel(ie.values, k)
                /\ ie'.secEnd = ie.secEnd
                /\ Realizations(ie', k) = <<>>
           ELSE /\ ie'.fragments = ie.fragments
                /\ ie'.Value = ie.Value
                /\ ie'.values = ie.values
                /\ ie'.secEnd = ie.secEnd

C6_Del == [][C6_DelStep]_vars

\* the first edit deletes a key the input assigns twice
C6_Witness ==
    /\ phase = "edit" /\ nEdits = 1 /\ lastOp.op = "Del"
    /\ Len(ValuesByKey(IniParseContents(input).evs, LastKey)) >= 2
    /\ ~HasKey(ie.values, LastKey)
    /\ Len(ie.fragments) >= 2

(***************************************************************************)
(* C7.  Set of a key with n >= 1 lines leaves exactly one: a newly made    *)
(* element holding the rendered line, standing where the last old line     *)
(* stood (the other old lines are gone, everything else is where it was),  *)
(* and the index entry is that one handle.                                 *)
(***************************************************************************)
C7_SetStep ==
    (EditStep /\ lastOp'.op = "Set" /\ HasKey(ie.values, IniQKey(lastOp'.sec, lastOp'.key))) =>
        LET k == IniQKey(lastOp'.sec, lastOp'.key)
            vs == ie.values[k]
            last == vs[Len(vs)]
            kept == SelectSeq(ie.fragments,
                              LAMBDA e : e = last \/ e \notin Range(vs))
        IN /\ HasKey(ie'.values, k) /\ Len(ie'.values[k]) = 1
           /\ LET new == ie'.values[k][1]
              IN /\ new \notin DOMAIN ie.Value
                 /\ ie'.Value[new] = iniLine(lastOp'.key, lastOp'.value)
                 /\ ie'.fragments = [i \in 1..Len(kept) |->
                                        IF kept[i] = last THEN new ELSE kept[i]]
                 /\ \A e \in Range(ie'.fragments) \ {new} : ie'.Value[e] = ie.Value[e]
                 /\ Realizations(ie', k) = <<new>>
           /\ ie'.values = MapPut(ie.values, k, ie'.values[k])
           /\ ie'.secEnd = ie.secEnd

C7_Set == [][C7_SetStep]_vars

\* the first edit sets a key the input assigns twice, with a line between
C7_Witness ==
    /\ phase = "edit" /\ nEdits = 1 /\ lastOp.op = "Set"
    /\ LET evs == IniParseContents(input).evs
       IN \E i \in 1..Len(evs), j \in 1..Len(evs) :
             /\ i < j
             /\ isItem(evs[i]) /\ IniQKey(evs[i].sec, evs[i].Key) = LastKey
             /\ isItem(evs[j]) /\ IniQKey(evs[j].sec, evs[j].Key) = LastKey
             /\ evs[i].range.EndIndex < evs[j].range.StartIndex
    /\ Len(valuesOf(ie, LastKey)) = 1
    /\ IndexOf(ie.fragments, ie.values[LastKey][1]) >= 2

(***************************************************************************)
(* C8.  Set is idempotent: after every Set the key has exactly one line,   *)
(* and a Set that repeats the Set before it (same section, key and value)  *)
(* leaves the serialized document as it was.                               *)
(***************************************************************************)
C8_SetTwiceStep ==
    (EditStep /\ lastOp'.op = "Set") =>
        LET k == IniQKey(lastOp'.sec, lastOp'.key)
        IN /\ Len(valuesOf(ie', k)) = 1
           /\ Len(Realizations(ie', k)) = 1
           /\ lastOp' = lastOp => WriteTo(ie') = WriteTo(ie)

C8_SetIdempotent == [][C8_SetTwiceStep]_vars

\* the same Set twice, of a key the input assigns twice
C8_Witness ==
    /\ phase = "edit" /\ nEdits = 2
    /\ lastOp.op = "Set" /\ prevOp = lastOp
    /\ Len(ValuesByKey(IniParseContents(input).evs, LastKey)) >= 2
    /\ Len(valuesOf(ie, LastKey)) = 1

(***************************************************************************)
(* C9.  Add of a key that has lines puts the new line right after the last *)
(* of them and appends its handle to the index entry, the earlier handles  *)
(* staying; and in every state the handles of an index entry are in        *)
(* document order.                                                         *)
(***************************************************************************)
InDocOrder(ed) ==
    \A k \in DOMAIN ed.values : \A i \in 1..Len(ed.values[k]), j \in 1..Len(ed.values[k]) :
        (i < j /\ Live(ed, ed.values[k][i]) /\ Live(ed, ed.values[k][j])) =>
            IndexOf(ed.fragments, ed.values[k][i]) < IndexOf(ed.fragments, ed.values[k][j])

C9_AddStep ==
    /\ InDocOrder(ie')
    /\ (EditStep /\ lastOp'.op = "Add" /\ HasKey(ie.values, IniQKey(lastOp'.sec, lastOp'.key))) =>
        LET k == IniQKey(lastOp'.sec, lastOp'.key)
            vs == ie.values[k]
            p == IndexOf(ie.fragments, vs[Len(vs)])
            new == ie.nalloc + 1
        IN /\ ie'.values = MapPut(ie.values, k, Append(vs, new))
           /\ ie'.fragments = SubSeq(ie.fragments, 1, p) \o <<new>>
                              \o SubSeq(ie.fragments, p + 1, Len(ie.fragments))
           /\ ie'.Value = MapPut(ie.Value, new, iniLine(lastOp'.key, lastOp'.value))
           /\ ie'.secEnd = ie.secEnd

C9_Add == [][C9_AddStep]_vars

\* two Adds of different values to a key the input assigns: three lines in
\* call order
C9_Witness ==
    /\ phase = "edit" /\ nEdits = 2
    /\ lastOp.op = "Add" /\ prevOp.op = "Add"
    /\ prevOp.sec = lastOp.sec /\ prevOp.key = lastOp.key /\ prevOp.value # lastOp.value
    /\ LET vs == valuesOf(ie, LastKey)
       IN /\ Len(vs) = 3
          /\ ie.Value[vs[2]] = iniLine(prevOp.key, prevOp.value)
          /\ ie.Value[vs[3]] = iniLine(lastOp.key, lastOp.value)
          /\ IndexOf(ie.fragments, vs[3]) = IndexOf(ie.fragments, vs[2]) + 1
          /\ IndexOf(ie.fragments, vs[3]) < Len(ie.fragments) - 1

(***************************************************************************)
(* C10.  Set or Add of a key in a section that has no insertion point      *)
(* puts the section header at the end of the fragment list (in the last    *)
(* element when that one is empty, else in a new element), then the new    *)
(* key line, then a new empty element registered as the section's          *)
(* insertion point; the document grows by exactly the header and the line, *)
(* and the key is indexed.                                                 *)
(***************************************************************************)
C10_NewSectionStep ==
    (EditStep /\ lastOp'.op \in {"Set", "Add"}
              /\ ~HasKey(ie.secEnd, SectionString(lastOp'.sec))) =>
        LET ss == SectionString(lastOp'.sec)
            k == IniQKey(lastOp'.sec, lastOp'.key)
            line == iniLine(lastOp'.key, lastOp'.value)
            n == Len(ie.fragments)
            back == Back(ie)
            inplace == back # 0 /\ ie.Value[back] = <<>>
            hdr == IF inplace THEN back ELSE ie.nalloc + 1
            mark == IF inplace THEN ie.nalloc + 1 ELSE ie.nalloc + 2
            new == mark + 1
        IN /\ ie'.fragments = (IF inplace THEN ie.fragments ELSE Append(ie.fragments, hdr))
                              \o <<new, mark>>
           /\ ie'.Value = MapPut(MapPut(MapPut(ie.Value, hdr, ss \o <<LF>>), mark, <<>>),
                                 new, line)
           /\ ie'.secEnd = MapPut(ie.secEnd, ss, mark)
           /\ ie'.values = MapPut(ie.values, k, <<new>>)
           /\ WriteTo(ie') = WriteTo(ie) \o ss \o <<LF>> \o line

C10_NewSection == [][C10_NewSectionStep]_vars

\* a header appended after a non-empty last fragment, and, one edit later,
\* a second header written into the empty insertion marker of the first
C10_Witness ==
    /\ phase = "edit" /\ nEdits = 2
    /\ lastOp.op = "Add" /\ prevOp.op = "Set"
    /\ lastOp.sec # prevOp.sec /\ ~lastOp.sec.isnil /\ ~prevOp.sec.isnil
    /\ LET n == Len(ie.fragments)
       IN /\ n >= 7
          /\ ie.Value[ie.fragments[n - 2]] = SectionString(lastOp.sec) \o <<LF>>
          /\ ie.secEnd[SectionString(prevOp.sec)] = ie.fragments[n - 2]
          /\ ie.Value[ie.fragments[n - 4]] = SectionString(prevOp.sec) \o <<LF>>
          /\ ie.fragments[n - 4] = ie.fragments[n - 5] + 1
          /\ ie.Value[ie.fragments[n - 5]] # <<>>

(***************************************************************************)
(* C11.  Set or Add of a key that has no line, in a section that has an    *)
(* insertion point, puts the new line inside that section: the closest     *)
(* header before it is the section's (none for the preamble), no header of *)
(* that section comes after it (it is in the last block), and between it   *)
(* and the next header or the end there is no key line, only the gap.      *)
(***************************************************************************)
\* the section of the header in fragment e
HeaderSec(ed, e) == IniParseContents(ed.Value[e]).evs[1].sec

\* the new line is fragment p of the document an, read fragment by fragment
C11_Placed(ed, an, p, sec, hdrs) ==
    LET before == { q \in hdrs : q < p }
        after == { q \in hdrs : q > p }
        next == IF after = {} THEN Len(an) + 1
                ELSE CHOOSE q \in after : \A r \in after : q <= r
    IN /\ IF sec.isnil THEN before = {}
          ELSE /\ before # {}
               /\ HeaderSec(ed, an[CHOOSE q \in before : \A r \in before : r <= q].e) = sec
       /\ \A q \in after : HeaderSec(ed, an[q].e) # sec
       /\ \A q \in (p + 1)..(next - 1) : an[q].kind = "other"

C11_Document(ed, an, vs, sec, line) ==
    /\ Len(vs) = 1
    /\ ed.Value[vs[1]] = line
    /\ C11_Placed(ed, an, IndexOf(ed.fragments, vs[1]), sec,
                  { q \in 1..Len(an) : an[q].kind = "section" })

C11_InsideStep ==
    (EditStep /\ lastOp'.op \in {"Set", "Add"}
              /\ ~HasKey(ie.values, IniQKey(lastOp'.sec, lastOp'.key))
              /\ HasKey(ie.secEnd, SectionString(lastOp'.sec))) =>
        C11_Document(ie', Analyze(ie'), valuesOf(ie', IniQKey(lastOp'.sec, lastOp'.key)),
                     lastOp'.sec, iniLine(lastOp'.key, lastOp'.value))

C11_Inside == [][C11_InsideStep]_vars

\* the second edit adds a new key to a section of the input that is
\* followed by a gap and another header, after the first edit has
\* synthesized a section at the end
C11_Witness ==
    /\ phase = "edit" /\ nEdits = 2
    /\ lastOp.op = "Add" /\ prevOp.op = "Set"
    /\ ~lastOp.sec.isnil /\ prevOp.sec # lastOp.sec
    /\ LET vs == valuesOf(ie, LastKey)
           p == IF vs = <<>> THEN 0 ELSE IndexOf(ie.fragments, vs[1])
           n == Len(ie.fragments)
       IN /\ Len(vs) = 1
          /\ p >= 2 /\ p + 4 <= n
          /\ ie.Value[ie.fragments[p - 1]] = SectionString(lastOp.sec) \o <<LF>>
          /\ ie.Value[ie.fragments[n - 2]] = SectionString(prevOp.sec) \o <<LF>>
          /\ ie.Value[ie.fragments[n - 1]] = iniLine(prevOp.key, prevOp.value)

(***************************************************************************)
(* C12.  For every byte string val, the value grammar reads                *)
(* EscapeIniValue(val) followed by a newline back as val, consuming all of *)
(* it; and the line iniLine(key, val), parsed, delivers one item with that *)
(* key and the value val, and no error but the one the callback returns.   *)
(***************************************************************************)
C12_EscapeInverse ==
    /\ LET text == EscapeIniValue(val) \o <<LF>>
           gv == getValue(text, newParser)
       IN gv.st = "ok" /\ gv.val = val /\ gv.l.index = Len(text)
    /\ phase = "done" =>
          /\ Len(calls) = 3
          /\ errs = IF calls[2].ret = "ok" THEN <<>> ELSE <<errs[1]>>
          /\ \A i \in 1..Len(errs) : errs[i].Msg = calls[2].ret
          /\ calls[2].kind = "item" /\ calls[2].sec = NilSec /\ calls[2].Key = <<Ch.a>>
          /\ calls[2].hasValue /\ calls[2].Value = val
          /\ calls[2].range.StartIndex = 0 /\ calls[2].range.EndIndex = Len(input)

\* a value that starts with a blank and holds a quote and a newline has
\* been rendered, quoted and escaped, and read back
C12_Witness ==
    /\ phase = "done"
    /\ Len(val) = 3 /\ val[1] = SP /\ val[2] = DQ /\ val[3] = LF
    /\ input = <<TAB, Ch.a, SP, EQ, SP, DQ, SP, BSL, DQ, BSL, Lower_n, DQ, LF>>
    /\ Len(calls) = 3 /\ calls[2].Value = val

(***************************************************************************)
(* C13.  A statement that ends in an error, raised by the grammar or       *)
(* returned by the Item or Section callback, costs its own line only: when *)
(* the error has been recorded the cursor is no further than the start of  *)
(* the line after the one the statement started on, so every later line is *)
(* still to be parsed.                                                     *)
(***************************************************************************)
\* the offset just after the first newline at or after offset from
LineEnd(inp, from) ==
    IF IndexByte(inp, from, LF) < 0 THEN Len(inp) ELSE IndexByte(inp, from, LF) + 1

C13_OneLineStep ==
    (phase = "parse" /\ Len(errs') = Len(errs) + 1) =>
        l'.index <= LineEnd(input, l.index)

C13_OneLine == [][C13_OneLineStep]_vars

(***************************************************************************)
(* C14.  IniParseContents terminates and returns all the errors: while     *)
(* input remains, an iteration of the statement loop ends with the cursor  *)
(* at least one byte further, the errors recorded so far kept, and the     *)
(* loop still running; with no input left the call ends and returns them.  *)
(***************************************************************************)
C14_ProgressStep ==
    /\ (phase = "parse" /\ remaining(input, l) > 0) =>
          /\ phase' = "parse"
          /\ l'.index > l.index /\ l'.index <= Len(input)
          /\ Len(errs') >= Len(errs) /\ SubSeq(errs', 1, Len(errs)) = errs
    /\ (phase = "parse" /\ remaining(input, l) = 0) =>
          /\ phase' = "done"
          /\ errs' = errs

isStatementCall(c) == c.kind \in {"section", "item"}

C15_ProtocolOrder ==
    LET n == Len(calls)
        stmts == SelectSeq(calls, isStatementCall)
        lastEnd == IF stmts = <<>> THEN 0 ELSE stmts[Len(stmts)].range.EndIndex
    IN /\ phase \in {"new", "render"} <=> calls = <<>>
       /\ \A i \in 1..n : calls[i].kind = "Init" <=> i = 1
       /\ \A i \in 1..n : calls[i].kind = "Done" <=> (i = n /\ phase = "done")
       /\ phase = "done" => n >= 2
       /\ \A i \in 1..n : calls[i].kind \in {"Init", "section", "item", "Done"}
       /\ \A i, j \in 1..Len(stmts) :
             i < j => /\ stmts[i].range.StartIndex < stmts[j].range.StartIndex
                      /\ stmts[i].range.EndIndex <= stmts[j].range.StartIndex
       /\ phase = "done" =>
             calls[n].range = [StartIndex |-> Len(input), EndIndex |-> Len(input),
                               PrevEndIndex |-> lastEnd]

\* a completed parse that delivered a header and an item, which the sink
\* refused, and ended with a gap after the last statement delivered
C15_Witness ==
    /\ phase = "done"
    /\ Len(calls) = 4
    /\ calls[2].kind = "section" /\ calls[3].kind = "item"
    /\ calls[3].ret = "error"
    /\ calls[4].range.PrevEndIndex < Len(input)
    /\ calls[4].range.PrevEndIndex = calls[3].range.EndIndex

\* the first offset at or after i that holds no blank
RECURSIVE Blanks(_, _)
Blanks(inp, i) ==
    IF i < Len(inp) /\ inp[i + 1] \in {SP, TAB, CR} THEN Blanks(inp, i + 1) ELSE i

(***************************************************************************)
(* C16.  Every item is delivered with the identity of the closest header   *)
(* before it that parsed (the identity its Section callback was given, the *)
(* one the header's text spells), and with the absent identity when there  *)
(* was none; the parser's current section is that identity too, so a       *)
(* header that fails to parse changes nothing.                             *)
(***************************************************************************)
\* the identity of the last Section callback among the first n calls
SecBefore(n) ==
    LET hs == { i \in 1..n : calls[i].kind = "section" }
    IN IF hs = {} THEN NilSec ELSE calls[CHOOSE i \in hs : \A j \in hs : j <= i].sec

\* the header text of the Section call c spells the identity it carries: the
\* name after the '[', a subsection when no ']' follows the name, and, when
\* the text holds no backslash, the whole text is the identity's rendering
C16_Spelled(c) ==
    /\ ~c.sec.isnil
    /\ input[Blanks(input, c.range.StartIndex) + 1] = LBRACK
    /\ SubSeq(input, Blanks(input, c.range.StartIndex) + 2,
              Blanks(input, c.range.StartIndex) + 1 + Len(c.sec.Section)) = c.sec.Section
    /\ c.sec.hasSub =
          (input[Blanks(input, c.range.StartIndex) + 2 + Len(c.sec.Section)] # RBRACK)
    /\ (\A j \in (c.range.StartIndex + 1)..c.range.EndIndex : input[j] # BSL)
          => SubSeq(input, c.range.StartIndex + 1, c.range.EndIndex)
                = SectionString(c.sec) \o <<LF>>

C16_SectionIdentity ==
    /\ \A i \in 1..Len(calls) :
          /\ calls[i].kind = "item" => calls[i].sec = SecBefore(i - 1)
          /\ calls[i].kind = "section" => C16_Spelled(calls[i])
    /\ l.sec = SecBefore(Len(calls))

\* a header with a subsection, then a header that fails to parse, then an
\* item: it is delivered in the first header's section
C16_Witness ==
    /\ phase = "done"
    /\ Len(calls) = 4 /\ Len(errs) = 1
    /\ calls[2].kind = "section" /\ calls[2].sec = MkSubSec(<<Ch.t>>, <<Ch.x>>)
    /\ errs[1].Index > calls[2].range.EndIndex
    /\ calls[3].kind = "item" /\ calls[3].range.StartIndex > errs[1].Index
    /\ calls[3].sec = MkSubSec(<<Ch.t>>, <<Ch.x>>)
    /\ input[calls[3].range.PrevEndIndex + 1] = LBRACK

(***************************************************************************)
(* Positions, told from the input alone: the line of an offset is the      *)
(* number of newlines before it; its column starts at 0 after the last     *)
(* newline, goes to the next multiple of 8 above it at a tab and one       *)
(* further at any other byte.                                              *)
(***************************************************************************)
LineAt(inp, off) == Cardinality({ i \in 1..off : inp[i] = LF })

LineStart(inp, off) ==
    LET nls == { i \in 1..off : inp[i] = LF }
    IN IF nls = {} THEN 0 ELSE CHOOSE i \in nls : \A j \in nls : j <= i

RECURSIVE ColFrom(_, _, _, _)
ColFrom(inp, i, off, col) ==
    IF i >= off THEN col
    ELSE ColFrom(inp, i + 1, off, IF inp[i + 1] = TAB THEN ((col \div 8) + 1) * 8 ELSE col + 1)

ColAt(inp, off) == ColFrom(inp, LineStart(inp, off), off, 0)

\* the error e points at offset off of the input
PointsAt(e, inp, off) ==
    /\ e.has /\ e.Index = off
    /\ e.Lineno = LineAt(inp, off) + 1
    /\ e.Colno = ColAt(inp, off) + 1

(***************************************************************************)
(* C17.  When a callback fails, the error recorded for it points at the    *)
(* first byte of the key for an Item that returned a BadKey; at the first  *)
(* byte of the value (after '=' and the blanks behind it, or where the     *)
(* rest of the line begins for a key without '=') for an Item that         *)
(* returned anything else; at the '[' for a Section.                       *)
(***************************************************************************)
\* where the error of the failed callback c belongs
C17_Expected(c) ==
    LET keyOff == Blanks(input, c.range.StartIndex)
        afterKey == Blanks(input, keyOff + Len(c.Key))
    IN IF c.kind = "section" \/ c.ret = "BadKey" THEN keyOff
       ELSE IF c.hasValue THEN Blanks(input, afterKey + 1)
       ELSE afterKey

C17_Failed(c, es) ==
    c.ret # "ok" =>
        /\ Len(es) = Len(errs) + 1
        /\ PointsAt(es[Len(es)], input, C17_Expected(c))
        /\ input[Blanks(input, c.range.StartIndex) + 1]
              = (IF c.kind = "section" THEN LBRACK ELSE c.Key[1])
        /\ (c.kind = "item" /\ c.hasValue) =>
              input[Blanks(input, Blanks(input, c.range.StartIndex) + Len(c.Key)) + 1] = EQ

C17_ErrorPositionStep ==
    (phase = "parse" /\ Len(calls') = Len(calls) + 1 /\ phase' = "parse") =>
        C17_Failed(calls'[Len(calls')], errs')

C17_ErrorPosition == [][C17_ErrorPositionStep]_vars

\* on the line <tab>a = 2 an Item that returned a BadKey was reported at
\* column 9, and two lines further one that returned another error at
\* column 13
C17_Witness ==
    /\ Len(errs) = 2 /\ Len(calls) = 3
    /\ calls[2].kind = "item" /\ calls[2].ret = "BadKey"
    /\ errs[1].Lineno = 1 /\ errs[1].Colno = 9
    /\ calls[3].kind = "item" /\ calls[3].ret = "error" /\ calls[3].hasValue
    /\ errs[2].Lineno = 3 /\ errs[2].Colno = 13

(***************************************************************************)
(* C18.  The line and the column the parser tracks are those of the bytes  *)
(* consumed: at every cursor the line is the number of newlines before it  *)
(* and the column the tab-aware column of its offset; every error recorded *)
(* carries line + 1 and column + 1 of the offset it was raised for.        *)
(***************************************************************************)
C18_Position ==
    /\ l.index \in 0..Len(input)
    /\ l.lineno = LineAt(input, l.index)
    /\ l.colno = ColAt(input, l.index)
    /\ \A i \in 1..Len(errs) : PointsAt(errs[i], input, errs[i].Index)

\* an error after a blank and a tab on the third line: line 3, column 9
C18_Witness ==
    /\ phase = "done"
    /\ l.lineno = 3 /\ l.colno = 0
    /\ \E i \in 1..Len(errs) :
          /\ errs[i].Lineno = 3 /\ errs[i].Colno = 9
          /\ input[errs[i].Index] = TAB /\ input[errs[i].Index - 1] = SP

\* the offset of the newline that ends the line of offset i, or the input's length
NewlineAt(inp, i) ==
    IF IndexByte(inp, i, LF) < 0 THEN Len(inp) ELSE IndexByte(inp, i, LF)

\* the statement about to be parsed starts, after its blanks, with a byte
\* that opens neither a header, a key, a comment nor an empty line
C19_BadStart ==
    /\ phase = "parse"
    /\ Blanks(input, l.index) < Len(input)
    /\ input[Blanks(input, l.index) + 1] \notin {LBRACK, HASH, SEMI, LF}
    /\ ~isAlpha(input[Blanks(input, l.index) + 1])

\* the statement fails with the one error msg at that byte, no callback is
\* fired, and the cursor is left at the end of the line with the section kept
C19_Rejected(msg) ==
    C19_BadStart =>
        /\ Len(errs') = Len(errs) + 1
        /\ SubSeq(errs', 1, Len(errs)) = errs
        /\ PointsAt(errs'[Len(errs')], input, Blanks(input, l.index))
        /\ errs'[Len(errs')].Msg = msg
        /\ calls' = calls
        /\ phase' = "parse"
        /\ l'.index = NewlineAt(input, l.index)
        /\ l'.sec = l.sec

\* a statement that starts on a newline consumes that byte and nothing else
C19_Resumes ==
    (phase = "parse" /\ l.index < Len(input) /\ input[l.index + 1] = LF) =>
        /\ l'.index = l.index + 1
        /\ errs' = errs /\ calls' = calls /\ l'.sec = l.sec

RECURSIVE KeyEnd(_, _)
KeyEnd(inp, i) == IF i < Len(inp) /\ isKeyChar(inp[i + 1]) THEN KeyEnd(inp, i + 1) ELSE i

\* the statement about to be parsed is a key that no '=' follows; ks is the
\* offset of the key, r the offset of what follows the key and its blanks
C20_BareKey(ks, r) ==
    /\ phase = "parse"
    /\ ks = Blanks(input, l.index)
    /\ ks < Len(input) /\ isAlpha(input[ks + 1])
    /\ r = Blanks(input, KeyEnd(input, ks))
    /\ ~(r < Len(input) /\ input[r + 1] = EQ)

C20_RestIsEmpty(r) == r = Len(input) \/ input[r + 1] \in {LF, HASH, SEMI}

C20_Delivered(ks, c) ==
    /\ c.kind = "item" /\ ~c.hasValue /\ c.Value = <<>>
    /\ c.Key = SubSeq(input, ks + 1, KeyEnd(input, ks))
    /\ c.sec = l.sec
    /\ c.range.StartIndex = l.index
    /\ c.range.EndIndex = LineEnd(input, ks)

C20_Outcome(ks, r) ==
    IF C20_RestIsEmpty(r)
    THEN /\ Len(calls') = Len(calls) + 1
         /\ C20_Delivered(ks, calls'[Len(calls')])
         /\ (calls'[Len(calls')].ret = "ok") => errs' = errs
    ELSE /\ calls' = calls
         /\ Len(errs') = Len(errs) + 1
         /\ PointsAt(errs'[Len(errs')], input, r)
         /\ errs'[Len(errs')].Msg = "Expected '=' after key"
         /\ l'.index = NewlineAt(input, l.index)

(***************************************************************************)
(* C20.  A key that no '=' follows is delivered as an item without a value *)
(* exactly when the rest of its line, after blanks, is empty, a '#' or ';' *)
(* comment, or the end of the input; any other byte there gives a syntax   *)
(* error for the line and no Item callback.  An item without a value is    *)
(* delivered in no other case.                                             *)
(***************************************************************************)
C20_BareKeyStep ==
    /\ \A ks, r \in 0..Len(input) : C20_BareKey(ks, r) => C20_Outcome(ks, r)
    /\ (Len(calls') = Len(calls) + 1 /\ calls'[Len(calls')].kind = "item"
          /\ ~calls'[Len(calls')].hasValue)
       => \E ks, r \in 0..Len(input) : C20_BareKey(ks, r) /\ C20_RestIsEmpty(r)

C20_NilValue == [][C20_BareKeyStep]_vars

\* b, b ;c and b<sp> at the end of the input were each delivered without a
\* value
C20_Witness ==
    /\ phase = "done" /\ Len(calls) = 5 /\ errs = <<>>
    /\ \A i \in 2..4 : calls[i].kind = "item" /\ ~calls[i].hasValue /\ calls[i].ret = "ok"
    /\ input[calls[2].range.EndIndex] = LF
    /\ input[calls[2].range.EndIndex - 1] = Ch.b
    /\ input[calls[3].range.EndIndex - 1] = Ch.c
    /\ calls[4].range.EndIndex = Len(input) /\ input[Len(input)] = SP

\* the line b x was refused at the x with no callback
C20_WitnessRefused ==
    /\ phase = "done" /\ Len(calls) = 2 /\ Len(errs) = 1
    /\ errs[1].Msg = "Expected '=' after key"
    /\ input[errs[1].Index + 1] = Ch.x /\ input[errs[1].Index] = SP


\* the first offset at or after i that holds a '#' or a ';'
RECURSIVE CommentAt(_, _)
CommentAt(inp, i) ==
    IF i < Len(inp) /\ inp[i + 1] \notin {HASH, SEMI} THEN CommentAt(inp, i + 1) ELSE i

\* the statement about to be parsed is key = value where the value, written
\* at offset vs without quotes or escapes, is cut by a comment at offset cm
\* of the same line
C21_CommentedValue(vs, cm) ==
    /\ phase = "parse"
    /\ Blanks(input, l.index) < Len(input)
    /\ isAlpha(input[Blanks(input, l.index) + 1])
    /\ Blanks(input, KeyEnd(input, Blanks(input, l.index))) < Len(input)
    /\ input[Blanks(input, KeyEnd(input, Blanks(input, l.index))) + 1] = EQ
    /\ vs = Blanks(input, Blanks(input, KeyEnd(input, Blanks(input, l.index))) + 1)
    /\ cm = CommentAt(input, vs)
    /\ cm < NewlineAt(input, l.index)
    /\ \A i \in (vs + 1)..NewlineAt(input, l.index) : input[i] \notin {DQ, BSL, CR}

(***************************************************************************)
(* C21.  In a value, an unquoted '#' or ';' starts a comment that extends  *)
(* to the end of that same line: the value delivered is the bytes before   *)
(* the comment, the statement ends at that line's newline (or the end of   *)
(* the input), and the line after it is left to be parsed as a statement   *)
(* of its own.                                                             *)
(***************************************************************************)
C21_CommentStep ==
    \A vs, cm \in 0..Len(input) :
        C21_CommentedValue(vs, cm) =>
            /\ Len(calls') = Len(calls) + 1
            /\ calls'[Len(calls')].kind = "item"
            /\ calls'[Len(calls')].hasValue
            /\ calls'[Len(calls')].Value = SubSeq(input, vs + 1, cm)
            /\ calls'[Len(calls')].range.EndIndex = LineEnd(input, l.index)
            /\ (calls'[Len(calls')].ret = "ok") => l'.index = LineEnd(input, l.index)

C21_CommentEndsLine == [][C21_CommentStep]_vars


(***************************************************************************)
(* C22.  A section header whose quoted subsection holds a newline or a NUL *)
(* byte anywhere between its quotes, directly after a backslash included,  *)
(* is rejected: no Section callback fires for it, and a header never spans *)
(* more than one line.  So the text of every header delivered holds no NUL *)
(* and no newline but the one that ends it.                                *)
(***************************************************************************)
C22_HeaderOneLine ==
    \A n \in 1..Len(calls) :
        calls[n].kind = "section" =>
            \A i \in (calls[n].range.StartIndex + 1)..(calls[n].range.EndIndex - 1) :
                input[i] \notin {LF, NUL}


(***************************************************************************)
(* C28.  During IniParseContents every read of the input is at an offset   *)
(* in [0, len(input)): the parser never stops on anything but a recorded   *)
(* ParseError, also when the input ends in the middle of a statement.      *)
(***************************************************************************)
C28_ReadsInBounds == phase # "panic"

(***************************************************************************)
(* C30.  Every section identity and every key the parser hands to a sink   *)
(* is valid: the section name is non-empty and made of letters, digits and *)
(* hyphens, the subsection holds no newline and no NUL, the key starts     *)
(* with a letter followed by letters, digits and hyphens; so IniQKey       *)
(* accepts every item delivered, whatever the input.                       *)
(***************************************************************************)
C30_DeliveredValid ==
    \A n \in 1..Len(calls) :
        /\ calls[n].kind \in {"section", "item"} => SectionValid(calls[n].sec)
        /\ calls[n].kind = "section" => ~calls[n].sec.isnil
        /\ calls[n].kind = "item" => ValidIniKey(calls[n].Key)

\* the header [-1 "\<nul>"] and, in its section, the key a-1 were delivered
C30_Witness ==
    /\ Len(calls) >= 3
    /\ calls[2].kind = "section" /\ calls[2].sec.Section = <<MINUS, Ch.one>>
    /\ calls[2].sec.hasSub
    /\ \E i \in 1..calls[2].range.EndIndex : input[i] = NUL
    /\ calls[3].kind = "item" /\ calls[3].Key = <<Ch.a, MINUS, Ch.one>>
    /\ calls[3].sec = calls[2].sec


\* the fewest arguments after the section that the method named takes
C23_MinArgs(name) == IF name = "Del" THEN 1 ELSE 2

\* what the call op (a method name, a section name, the arguments) has to
\* return by its arguments alone
C23_Expected(op) ==
    IF Len(op.args) \notin {C23_MinArgs(op.op), C23_MinArgs(op.op) + 1}
    THEN "ErrInvalidNumArgs"
    ELSE IF \/ op.sec = <<>>
            \/ \E i \in 1..Len(op.sec) : ~isKeyChar(op.sec[i])
            \/ /\ Len(op.args) = C23_MinArgs(op.op) + 1
               /\ \E i \in 1..Len(op.args[1]) : op.args[1][i] \in {LF, NUL}
    THEN "ErrInvalidSection"
    ELSE "nil"

\* the operation the accepted call op queues
C23_Queues(op, f) ==
    /\ f.op = op.op
    /\ f.sec.Section = op.sec /\ ~f.sec.isnil
    /\ f.sec.hasSub = (Len(op.args) = C23_MinArgs(op.op) + 1)
    /\ f.sec.hasSub => f.sec.Subsection = op.args[1]
    /\ f.key = op.args[Len(op.args) + 1 - C23_MinArgs(op.op)]
    /\ f.value = (IF op.op = "Del" THEN <<>> ELSE op.args[Len(op.args)])

(***************************************************************************)
(* C23.  A Del, Set or Add call on the batch with a wrong number of        *)
(* arguments returns ErrInvalidNumArgs, and one with an illegal section    *)
(* name or subsection returns ErrInvalidSection; in both cases the batch   *)
(* is left as it was.  A call that returns nil appends exactly one         *)
(* operation at the end of the batch.  No call touches a document.         *)
(***************************************************************************)
C23_EagerStep ==
    (nEdits' = nEdits + 1) =>
        /\ retval' = C23_Expected(lastOp')
        /\ ie' = ie
        /\ IF retval' = "nil"
           THEN /\ Len(edits') = Len(edits) + 1
                /\ SubSeq(edits', 1, Len(edits)) = edits
                /\ C23_Queues(lastOp', edits'[Len(edits')])
           ELSE edits' = edits

C23_EagerValidation == [][C23_EagerStep]_vars

\* after an accepted Set, an Add with an illegal subsection was refused and
\* the batch still holds the one Set
C23_Witness ==
    /\ nEdits = 2 /\ Len(edits) = 1 /\ edits[1].op = "Set"
    /\ retval = "ErrInvalidSection"
    /\ lastOp.op = "Add" /\ Len(lastOp.args) = 3 /\ lastOp.args[1] = <<LF>>
    /\ lastOp.sec = <<Ch.s>>

\* the editor methods called one after the other, in the order queued
RECURSIVE C24_Direct(_, _)
C24_Direct(ops, ed) ==
    IF ops = <<>> THEN ed
    ELSE C24_Direct(Tail(ops),
            IF Head(ops).op = "Del" THEN IEDel(ed, Head(ops).sec, Head(ops).key)
            ELSE IF Head(ops).op = "Set"
                 THEN IESet(ed, Head(ops).sec, Head(ops).key, Head(ops).value)
            ELSE IEAdd(ed, Head(ops).sec, Head(ops).key, Head(ops).value))

(***************************************************************************)
(* C24.  An Apply that completes leaves the target in exactly the state    *)
(* reached by calling the editor's Del, Set and Add directly in the order  *)
(* queued, and leaves the batch empty; an Apply of an empty batch changes  *)
(* nothing.                                                                *)
(***************************************************************************)
C24_ApplyStep ==
    /\ (lastOp'.op = "Apply" /\ phase' = "script") =>
          /\ ie' = C24_Direct(edits, ie)
          /\ edits' = <<>>
    /\ (phase' = "script" /\ edits' = <<>>) =>
          IniEditsApply(edits', ie') = [target |-> ie', edits |-> <<>>, panicked |-> FALSE]

C24_ApplyIsDirect == [][C24_ApplyStep]_vars

\* a batch of two operations was applied and changed the document
C24_Witness ==
    /\ phase = "script" /\ lastOp.op = "Apply" /\ nEdits = 2 /\ edits = <<>>
    /\ WriteTo(ie) # input
    /\ Len(input) > 4
    /\ \E k \in DOMAIN ie.values : Len(ie.values[k]) = 2

(***************************************************************************)
(* C29.  Every operation that a Del, Set or Add call of the batch accepted *)
(* can be applied: IniQKey accepts the section and the key of every queued *)
(* operation, and Apply completes.                                         *)
(***************************************************************************)
C29_AcceptedApplies ==
    /\ \A n \in 1..Len(edits) : ~QKeyPanics(edits[n])
    /\ phase = "script"


\* what Item makes of the slot for an item whose key is a field: the new
\* value and the error returned
C25_Converted(slot, it) ==
    IF ~it.hasValue THEN [v |-> ZeroOf(slot), err |-> "nil"]
    ELSE IF slot.kind = "string" THEN [v |-> it.Value, err |-> "nil"]
    ELSE Sscan(it.Value, slot.v)

\* the item it was bound: its slot took the converted value, no other slot
\* changed, and nothing was passed on to Next
C25_BoundTo(it) ==
    /\ sink'.Fields[it.Key].v = C25_Converted(sink.Fields[it.Key], it).v
    /\ retval' = C25_Converted(sink.Fields[it.Key], it).err
    /\ \A k \in DOMAIN sink.Fields : k # it.Key => sink'.Fields[k] = sink.Fields[k]
    /\ sink'.next = sink.next

(***************************************************************************)
(* C25.  A sink with no section to match binds a recognized key whatever   *)
(* the item's section: for every item whose key is a field, in the         *)
(* preamble or in any section, the slot is updated and the item is not     *)
(* passed on to Next.                                                      *)
(***************************************************************************)
C25_UnfilteredStep ==
    (nEdits' = nEdits + 1 /\ sink.Sec.isnil /\ lastOp'.item.Key \in DOMAIN sink.Fields)
        => C25_BoundTo(lastOp'.item)

C25_Unfiltered == [][C25_UnfilteredStep]_vars

\* the section of the item it matches what the sink is set to match
C26_Matches(it) == sink.Sec.isnil \/ sink.Sec = it.sec

(***************************************************************************)
(* C26.  For every item the sink does exactly one of: update the slot of   *)
(* the key (the section matches and the key is a field; an absent value    *)
(* gives the zero value), or pass the unchanged item on to Next and return *)
(* its result (the key is no field or the section does not match, and      *)
(* there is a Next), or ignore the item and return nil (no Next); an item  *)
(* passed on or ignored changes no slot.                                   *)
(***************************************************************************)
C26_OneOfStep ==
    (nEdits' = nEdits + 1) =>
        IF C26_Matches(lastOp'.item) /\ lastOp'.item.Key \in DOMAIN sink.Fields
        THEN C25_BoundTo(lastOp'.item)
        ELSE IF sink.hasNext
        THEN /\ sink'.next = Append(sink.next, lastOp'.item)
             /\ sink'.Fields = sink.Fields
             /\ retval' = lastOp'.nextret
        ELSE /\ sink' = sink
             /\ retval' = "nil"

C26_ExactlyOne == [][C26_OneOfStep]_vars


\* the larger of a fee and the base fee
C27_Raised(fee) == IF fee < fs.Last_ledger_base_fee THEN fs.Last_ledger_base_fee ELSE fee

\* the entries of a percentile above the target
C27_Above == { i \in 1..Len(fs.Percentiles) : fs.Percentiles[i].Percentile > fs.target }

(***************************************************************************)
(* C27.  For fee statistics sorted by ascending percentile, Percentile     *)
(* returns the fee recorded for the target when that percentile is known,  *)
(* otherwise the fee recorded for the smallest known percentile above the  *)
(* target when there is one, in both cases raised to the base fee if it is *)
(* lower; it never returns less than the base fee.                         *)
(***************************************************************************)
C27_KnownOrNextHigher ==
    phase = "asked" =>
        /\ retval >= fs.Last_ledger_base_fee
        /\ \A i \in 1..Len(fs.Percentiles) :
              fs.Percentiles[i].Percentile = fs.target
                  => retval = C27_Raised(fs.Percentiles[i].Fee)
        /\ ((\A i \in 1..Len(fs.Percentiles) : fs.Percentiles[i].Percentile # fs.target)
                /\ C27_Above # {})
              => retval = C27_Raised(fs.Percentiles[
                              CHOOSE i \in C27_Above : \A j \in C27_Above : i <= j].Fee)


\* the q-th fragment of the document, read on its own, is a section header
C31_IsHeader(ed, q) == FragKind(IniParseContents(ed.Value[ed.fragments[q]])) = "section"

\* no header stands before the element e of the document
C31_NoHeaderBefore(ed, e) ==
    \A q \in 1..(IndexOf(ed.fragments, e) - 1) : ~C31_IsHeader(ed, q)

\* the preamble has an insertion point, registered under the empty
\* signature, that is an element of the list with no header before it
C31_Marked(ed) ==
    /\ HasKey(ed.secEnd, <<>>)
    /\ Live(ed, ed.secEnd[<<>>])
    /\ C31_NoHeaderBefore(ed, ed.secEnd[<<>>])

C31_Mark == phase = "edit" => C31_Marked(ie)

\* after Set or Add of a key in the preamble, vs being the lines of the key:
\* the one new element is the line of the key and stands before the first
\* header, itself no header; every other element is one there was, with the
\* bytes it had, so no header was written; and the insertion points are the
\* ones registered before
C31_Placed(ed, vs, k, line) ==
    /\ vs # <<>>
    /\ ed.Value[vs[Len(vs)]] = line
    /\ ~Live(ie, vs[Len(vs)])
    /\ \A i \in 1..Len(vs) :
          /\ Live(ed, vs[i])
          /\ C31_NoHeaderBefore(ed, vs[i])
          /\ ~C31_IsHeader(ed, IndexOf(ed.fragments, vs[i]))
    /\ \A i \in 1..Len(ed.fragments) :
          ed.fragments[i] # vs[Len(vs)] =>
              /\ Live(ie, ed.fragments[i])
              /\ ed.Value[ed.fragments[i]] = ie.Value[ed.fragments[i]]
    /\ OtherFrags(ed, k) = OtherFrags(ie, k)
    /\ ed.secEnd = ie.secEnd

C31_Step ==
    (EditStep /\ lastOp'.op \in {"Set", "Add"} /\ lastOp'.sec.isnil) =>
        C31_Placed(ie', valuesOf(ie', IniQKey(lastOp'.sec, lastOp'.key)),
                   IniQKey(lastOp'.sec, lastOp'.key), iniLine(lastOp'.key, lastOp'.value))

(***************************************************************************)
(* C31.  After NewIniEdit on any input the preamble has an insertion point *)
(* registered under the empty signature, and it keeps one in every state   *)
(* reached by Del, Set and Add; a key added to the preamble is placed      *)
(* before the first section header of the document, and no header line is  *)
(* ever synthesized for the preamble.                                      *)
(***************************************************************************)
C31_Preamble == []C31_Mark /\ [][C31_Step]_vars

\* a key was added to the preamble of a document that starts with a comment
\* and a header: its line stands before the comment
C31_Witness ==
    /\ phase = "edit" /\ nEdits = 1
    /\ lastOp.op = "Add" /\ lastOp.sec.isnil
    /\ input = <<HASH, Ch.c, LF, LBRACK, Ch.s, RBRACK, LF>>
    /\ WriteTo(ie) = iniLine(lastOp.key, lastOp.value) \o input
    /\ ie.secEnd[<<>>] = ie.fragments[2]


\* the accounts the goroutines started so far were started for
C32_Started == { goroutines[g].ac : g \in DOMAIN goroutines }

\* one goroutine for each distinct account: never two for one account, and
\* once the first loop is over one for every account of the map, which has
\* one entry for each account of the envelope however often it occurs
C32_OnePerAccount ==
    /\ DOMAIN xga.accounts = Range(envelope)
    /\ \A g, h \in DOMAIN goroutines :
          goroutines[g].ac = goroutines[h].ac => g = h
    /\ C32_Started = DOMAIN xga.accounts \ (IF caller.pc = "spawn" THEN caller.rest ELSE {})

\* a goroutine holds the acctInfo of its own account; the signers of an
\* account stay nil until its goroutine has stored, and are then what that
\* goroutine stores: the entry's signers or the account's own key
C32_OwnSigners ==
    /\ \A g \in DOMAIN goroutines :
          /\ goroutines[g].infp = goroutines[g].ac
          /\ xga.accounts[goroutines[g].ac].signers =
                IF goroutines[g].pc \in {"lookup", "store"} THEN <<>>
                ELSE storedSigners(goroutines[g])
    /\ \A ac \in DOMAIN xga.accounts \ C32_Started : xga.accounts[ac].signers = <<>>

\* a goroutine has sent one message once it is done and none before, and
\* the caller has received as many messages as goroutines have sent
C32_OneMessage ==
    /\ \A g \in DOMAIN goroutines :
          goroutines[g].sent = (IF goroutines[g].pc = "done" THEN 1 ELSE 0)
    /\ caller.i = Cardinality({ g \in DOMAIN goroutines : goroutines[g].pc = "done" })

\* once the caller reads signers it has received a message for every
\* account, every goroutine is over, and what it has read of an account is
\* what that account's goroutine stored
C32_ReadsAfterStores ==
    /\ caller.pc \in {"read", "done"} =>
          /\ caller.i = Cardinality(DOMAIN xga.accounts)
          /\ Len(goroutines) = Cardinality(DOMAIN xga.accounts)
          /\ \A g \in DOMAIN goroutines : goroutines[g].pc = "done"
          /\ \A ac \in DOMAIN xga.accounts : ~Racing(ac)
    /\ \A ac \in DOMAIN caller.read :
          /\ ac # ZeroAccount
          /\ caller.read[ac] = xga.accounts[ac].signers
          /\ caller.read[ac] # <<>>
    /\ caller.pc = "done" =>
          DOMAIN caller.read = DOMAIN xga.accounts \ {ZeroAccount}

\* until getAccounts has returned, the caller or some goroutine can step
C32_NotStuck == caller.pc # "done" => ENABLED ANext

C32_Safe ==
    /\ C32_OnePerAccount
    /\ C32_OwnSigners
    /\ C32_OneMessage
    /\ C32_ReadsAfterStores
    /\ C32_NotStuck

C32_Returned == caller.pc = "done"

(* C32. getAccounts starts one lookup goroutine for each distinct account; *)
(* each stores only the signers of its own account and then sends exactly  *)
(* one message on the unbuffered channel; the caller receives as many      *)
(* messages as there are accounts before it reads any signers, so that in  *)
(* every interleaving it never reads signers a goroutine may still store,  *)
(* it is never stuck, and under a fair scheduler it returns.               *)
C32_GetAccounts == []C32_Safe /\ <>C32_Returned

\* an envelope naming account 1 twice and account 2 once, looked up over
\* the network: two goroutines, the one for account 1 got an entry and the
\* one for account 2 none, both were received, and getAccounts has returned
\* having read what each stored
C32_Witness ==
    /\ caller.pc = "done"
    /\ envelope = <<1, 2, 1>>
    /\ usenet
    /\ Len(goroutines) = 2
    /\ caller.i = 2
    /\ \A g \in DOMAIN goroutines : goroutines[g].pc = "done" /\ goroutines[g].sent = 1
    /\ xga.accounts[1].signers = HorizonEntry(1).Signers
    /\ xga.accounts[2].signers = <<[Key |-> 2]>>
    /\ caller.read = [ac \in {1, 2} |-> xga.accounts[ac].signers]
    /\ caller.Signers = { [Key |-> 1, comment |-> <<>>],
                          [Key |-> MaxAccounts + 1, comment |-> <<1>>],
                          [Key |-> 2, comment |-> <<>>] }

====
